---- MODULE Spec2Model ----
(***************************************************************************)
(* dsync: versioned SQL changesets applied to a database, recorded in a    *)
(* ledger table, reconciled by Migrator.Migrate.                           *)
(*                                                                         *)
(* File names and file contents are sequences of byte values (ASCII       *)
(* codes); a checksum is the set of bit positions (0..31) that are set in  *)
(* the CRC32 value.                                                        *)
(***************************************************************************)
EXTENDS Integers, Sequences, FiniteSets, TLC

\* ------------------------------------------------------------------ bounds
MaxFiles == 2      \* entries in the changeset directory
MaxRuns  == 2      \* Migrate runs in one behaviour
NumProcs == 2      \* data-source objects / Migrate callers that exist
IntBits  == 8      \* width of the model's int64 (two's complement)
MaxNameLen == 6    \* length of the file names given to the parser
MaxSortLen == 4    \* entries in a listing given to the sorter
MaxContentLen == 3 \* bytes in a file given to HashFile
MaxPathLen == 2    \* bytes in the Basepath of a Config
MaxCalls == 4      \* calls a client makes on the methods of a data source

BufSize == 1024    \* make([]byte, 1024)

\* --------------------------------------------------------------- integers
RECURSIVE Pow2(_)
Pow2(n) == IF n = 0 THEN 1 ELSE 2 * Pow2(n - 1)

MaxInt == Pow2(IntBits - 1) - 1

\* two's complement wrap-around of the machine integer
WrapInt(x) == ((x + Pow2(IntBits - 1)) % Pow2(IntBits)) - Pow2(IntBits - 1)

\* -------------------------------------------------------------- sequences
SeqSet(s) == {s[i] : i \in 1..Len(s)}

\* the sequences that list each element of S once
RECURSIVE Perms(_)
Perms(S) ==
    IF S = {} THEN {<<>>}
    ELSE UNION {{<<x>> \o q : q \in Perms(S \ {x})} : x \in S}

\* ------------------------------------------------------------- characters
IsDigit(r) == r \in 48..57                      \* unicode.IsDigit on ASCII
ToLowerRune(r) == IF r \in 65..90 THEN r + 32 ELSE r
ToLower(s) == [i \in 1..Len(s) |-> ToLowerRune(s[i])]
EqualFold(s, t) == ToLower(s) = ToLower(t)      \* strings.EqualFold on ASCII

\* byte-wise lexical order of two names (the order fs.ReadDir returns)
RECURSIVE NameLess(_, _)
NameLess(s, t) ==
    IF t = <<>> THEN FALSE
    ELSE IF s = <<>> THEN TRUE
    ELSE IF Head(s) # Head(t) THEN Head(s) < Head(t)
    ELSE NameLess(Tail(s), Tail(t))

\* strconv.ParseInt(s, 10, 64): optional sign, at least one digit, digits
\* only, value within the integer range
RECURSIVE ParseDigits(_, _, _)
ParseDigits(s, i, acc) ==
    IF i > Len(s) THEN [ok |-> TRUE, val |-> acc]
    ELSE IF ~IsDigit(s[i]) THEN [ok |-> FALSE, val |-> 0]
    ELSE LET d == s[i] - 48 IN
         IF acc > (MaxInt + 1 - d) \div 10 THEN [ok |-> FALSE, val |-> 0]
         ELSE ParseDigits(s, i + 1, acc * 10 + d)

ParseInt(s) ==
    IF s = <<>> THEN [ok |-> FALSE, val |-> 0]
    ELSE LET neg  == s[1] = 45
             body == IF s[1] \in {43, 45} THEN Tail(s) ELSE s
             r    == IF body = <<>> THEN [ok |-> FALSE, val |-> 0]
                     ELSE ParseDigits(body, 1, 0)
         IN  IF ~r.ok THEN r
             ELSE IF neg THEN [ok |-> TRUE, val |-> 0 - r.val]
             ELSE IF r.val > MaxInt THEN [ok |-> FALSE, val |-> 0]
             ELSE r

\* --------------------------------------------------------------------- runes
RuneError == 65533    \* utf8.RuneError, U+FFFD

\* strings.Reader.ReadRune at byte i of s: the rune and its size; a byte that
\* starts no valid encoding reads as RuneError of size 1 (encodings of one
\* and two bytes are decoded; the alphabets used hold no lead byte of a
\* longer one)
ReadRune(s, i) ==
    IF s[i] < 128 THEN [r |-> s[i], size |-> 1]
    ELSE IF s[i] \in 194..223 /\ i + 1 <= Len(s) /\ s[i + 1] \in 128..191
    THEN [r |-> (s[i] - 192) * 64 + (s[i + 1] - 128), size |-> 2]
    ELSE [r |-> RuneError, size |-> 1]

\* strings.Builder.WriteRune: the UTF-8 encoding of r (r below 65536)
EncodeRune(r) ==
    IF r < 128 THEN <<r>>
    ELSE IF r < 2048 THEN <<192 + (r \div 64), 128 + (r % 64)>>
    ELSE <<224 + (r \div 4096), 128 + ((r \div 64) % 64), 128 + (r % 64)>>

\* ---------------------------------------------------------- ParseMigration
parserError(pos, filename) ==
    [err |-> "parserError", pos |-> pos, Version |-> 0, Name |-> <<>>, File |-> filename]

\* the for-loop of ParseMigration: rd is the reader's position (1-based,
\* in bytes), pos the loop's own counter, which also counts the iterations
\* that end in UnreadRune
RECURSIVE ParseLoop(_, _, _, _, _, _, _)
ParseLoop(filename, rd, pos, st, separatorsCount, builder, version) ==
    IF rd > Len(filename)
    THEN IF st = "stateReadName"
         THEN [err |-> "nil", pos |-> pos, Version |-> version,
               Name |-> builder, File |-> filename]
         ELSE parserError(pos, filename)
    ELSE LET rr == ReadRune(filename, rd)
             r  == rr.r
         IN
         CASE st = "stateReadVersion" ->
                IF ~IsDigit(r)
                THEN LET v == ParseInt(builder) IN
                     IF ~v.ok
                     THEN [err |-> "parseInt", pos |-> pos, Version |-> 0,
                           Name |-> <<>>, File |-> filename]
                     ELSE ParseLoop(filename, rd, pos + 1, "stateReadSeparators",
                                    separatorsCount, <<>>, v.val)
                ELSE ParseLoop(filename, rd + rr.size, pos + 1, st, separatorsCount,
                               builder \o EncodeRune(r), version)
           [] st = "stateReadSeparators" ->
                IF r # 95
                THEN IF separatorsCount = 2
                     THEN ParseLoop(filename, rd, pos + 1, "stateReadName",
                                    separatorsCount, builder, version)
                     ELSE parserError(pos, filename)
                ELSE IF separatorsCount > 2
                     THEN parserError(pos, filename)
                     ELSE ParseLoop(filename, rd + rr.size, pos + 1, st,
                                    separatorsCount + 1, builder, version)
           [] OTHER ->
                ParseLoop(filename, rd + rr.size, pos + 1, st, separatorsCount,
                          builder \o EncodeRune(r), version)

\* variant: the Version field is left at its zero value
ParseMigration_VersionUnset(filename) ==
    [ParseLoop(filename, 1, 0, "stateReadVersion", 0, <<>>, 0) EXCEPT !.Version = 0]

\* variant: a format error yields a Migration with default fields and no error
ParseMigration_Defaults(filename) ==
    LET m == ParseLoop(filename, 1, 0, "stateReadVersion", 0, <<>>, 0) IN
    IF m.err = "parserError" THEN [m EXCEPT !.err = "nil"] ELSE m

ParseMigration(filename) == ParseLoop(filename, 1, 0, "stateReadVersion", 0, <<>>, 0)

\* ---------------------------------------------------------- ExtractVersion
\* index of the first "__" in s, 0 when there is none (strings.Cut)
RECURSIVE IndexSep(_, _)
IndexSep(s, i) ==
    IF i + 1 > Len(s) THEN 0
    ELSE IF s[i] = 95 /\ s[i + 1] = 95 THEN i
    ELSE IndexSep(s, i + 1)

RECURSIVE TrimLeftZeros(_)
TrimLeftZeros(s) ==
    IF s # <<>> /\ Head(s) = 48 THEN TrimLeftZeros(Tail(s)) ELSE s

ExtractVersion(filename) ==
    LET k == IndexSep(filename, 1) IN
    IF k = 0 THEN [ok |-> FALSE, val |-> 0]
    ELSE ParseInt(TrimLeftZeros(SubSeq(filename, 1, k - 1)))

\* filepath.Ext: the suffix starting at the last dot, empty without a dot
RECURSIVE Ext(_, _)
Ext(name, i) ==
    IF i < 1 THEN <<>>
    ELSE IF name[i] = 46 THEN SubSeq(name, i, Len(name))
    ELSE Ext(name, i - 1)

\* the filter of the Migrate loop: a regular file with a .sql extension
IsCandidate(entry) ==
    entry.regular /\ ToLower(Ext(entry.name, Len(entry.name))) = <<46, 115, 113, 108>>

\* ----------------------------------------------------- SortDirectoryEntries
\* the comparator: int(entryAVersion - entryBVersion)
VersionCmp(a, b) == WrapInt(ExtractVersion(a.name).val - ExtractVersion(b.name).val)

\* variant: an element also moves left of a neighbour it compares equal to
RECURSIVE InsertLeft_MovesEqual(_, _)
InsertLeft_MovesEqual(s, j) ==
    IF j <= 1 THEN [panic |-> FALSE, s |-> s]
    ELSE IF ~ExtractVersion(s[j].name).ok \/ ~ExtractVersion(s[j - 1].name).ok
    THEN [panic |-> TRUE, s |-> s]
    ELSE IF VersionCmp(s[j], s[j - 1]) <= 0
    THEN InsertLeft_MovesEqual([s EXCEPT ![j] = s[j - 1], ![j - 1] = s[j]], j - 1)
    ELSE [panic |-> FALSE, s |-> s]

\* slices.SortStableFunc on at most 20 elements is an insertion sort:
\* element j moves left while it compares below its left neighbour; the
\* comparator panics when ExtractVersion fails on one of the two names, and
\* the slice stays as the sort has left it
RECURSIVE InsertLeft(_, _)
InsertLeft(s, j) ==
    IF j <= 1 THEN [panic |-> FALSE, s |-> s]
    ELSE IF ~ExtractVersion(s[j].name).ok \/ ~ExtractVersion(s[j - 1].name).ok
    THEN [panic |-> TRUE, s |-> s]
    ELSE IF VersionCmp(s[j], s[j - 1]) < 0
    THEN InsertLeft([s EXCEPT ![j] = s[j - 1], ![j - 1] = s[j]], j - 1)
    ELSE [panic |-> FALSE, s |-> s]

RECURSIVE InsertionSort(_, _)
InsertionSort(s, i) ==
    IF i > Len(s) THEN [panic |-> FALSE, s |-> s]
    ELSE LET r == InsertLeft(s, i) IN
         IF r.panic THEN r ELSE InsertionSort(r.s, i + 1)

\* variant: the entries stay in the order of the listing
SortDirectoryEntries_Unsorted(entries) ==
    IF Len(entries) >= 2 /\ \E i \in 1..Len(entries) : ~ExtractVersion(entries[i].name).ok
    THEN [err |-> "sort", entries |-> entries]
    ELSE [err |-> "nil", entries |-> entries]

\* variant: the recovered panic is not assigned to the result
SortDirectoryEntries_ErrorDropped(entries) ==
    [err |-> "nil", entries |-> InsertionSort(entries, 2).s]

\* the deferred recover turns the panic of the comparator into the error
\* returned; entries is the slice, sorted in place
SortDirectoryEntries(entries) ==
    LET r == InsertionSort(entries, 2) IN
    [err |-> IF r.panic THEN "sort" ELSE "nil", entries |-> r.s]

\* ---------------------------------------------------------------- HashFile
\* CRC32 (IEEE), reflected polynomial 0xEDB88320, as sets of bit positions
AllBits == 0..31
PolyBits == {5, 8, 9, 15, 19, 20, 21, 23, 24, 26, 27, 29, 30, 31}
Xor(a, b) == (a \ b) \cup (b \ a)
ShiftRight(a) == {i - 1 : i \in a \ {0}}
ByteBits(b) == {i \in 0..7 : (b \div Pow2(i)) % 2 = 1}

RECURSIVE CrcBitSteps(_, _)
CrcBitSteps(crc, n) ==
    IF n = 0 THEN crc
    ELSE CrcBitSteps(IF 0 \in crc THEN Xor(ShiftRight(crc), PolyBits)
                     ELSE ShiftRight(crc), n - 1)

\* crc32.Update on the inverted register
RECURSIVE CrcWrite(_, _)
CrcWrite(reg, bytes) ==
    IF bytes = <<>> THEN reg
    ELSE CrcWrite(CrcBitSteps(Xor(reg, ByteBits(Head(bytes))), 8), Tail(bytes))

\* what an fs.File answers to successive Read calls: a sequence of
\* [data, err] results, err one of "nil", "EOF", "EIO"
StdReads(content) ==
    IF content = <<>> THEN << [data |-> <<>>, err |-> "EOF"] >>
    ELSE << [data |-> content, err |-> "nil"], [data |-> <<>>, err |-> "EOF"] >>

FailingReads == << [data |-> <<>>, err |-> "EIO"] >>

\* the read loop of HashFile: on io.EOF it returns the sum of what was
\* written so far, on another error it fails, else it writes buf[:r]
RECURSIVE HashLoop(_, _, _)
HashLoop(reads, i, reg) ==
    IF reads[i].err = "EOF" THEN [err |-> "nil", sum |-> AllBits \ reg]
    ELSE IF reads[i].err # "nil" THEN [err |-> "hash", sum |-> {}]
    ELSE HashLoop(reads, i + 1, CrcWrite(reg, reads[i].data))

HashFile(opened, reads) ==
    IF ~opened THEN [err |-> "hash", sum |-> {}]
    ELSE HashLoop(reads, 1, AllBits)

\* ------------------------------------------------------- verifyFsMigration
RECURSIVE FirstMatch(_, _, _)
FirstMatch(m, migrations, i) ==
    IF i > Len(migrations) THEN 0
    ELSE IF EqualFold(m.File, migrations[i].File) THEN i
    ELSE FirstMatch(m, migrations, i + 1)

\* variant: the policy flag is not consulted, a lower version is always new
verifyFsMigration_NoPolicy(OutOfOrder, m, migrations, currentVersion) ==
    LET i == FirstMatch(m, migrations, 1) IN
    IF i # 0
    THEN IF m.Checksum = migrations[i].Checksum
         THEN "errMigrationValid"
         ELSE "errMigrationChecksumMismatch"
    ELSE IF m.Version = currentVersion THEN "errMigrationConflict"
    ELSE "errNewMigration"

\* variant: no check of the version against currentVersion for equality
verifyFsMigration_NoConflict(OutOfOrder, m, migrations, currentVersion) ==
    LET i == FirstMatch(m, migrations, 1) IN
    IF i # 0
    THEN IF m.Checksum = migrations[i].Checksum
         THEN "errMigrationValid"
         ELSE "errMigrationChecksumMismatch"
    ELSE IF m.Version < currentVersion
         THEN IF OutOfOrder THEN "errNewMigration" ELSE "errMigrationOutOfOrder"
    ELSE "errNewMigration"

\* variant: a version conflict is raised for the version of any ledger row
verifyFsMigration_ConflictAnyRow(OutOfOrder, m, migrations, currentVersion) ==
    LET i == FirstMatch(m, migrations, 1) IN
    IF i # 0
    THEN IF m.Checksum = migrations[i].Checksum
         THEN "errMigrationValid"
         ELSE "errMigrationChecksumMismatch"
    ELSE IF \/ m.Version = currentVersion
            \/ \E j \in 1..Len(migrations) : migrations[j].Version = m.Version
         THEN "errMigrationConflict"
    ELSE IF m.Version < currentVersion
         THEN IF OutOfOrder THEN "errNewMigration" ELSE "errMigrationOutOfOrder"
    ELSE "errNewMigration"

verifyFsMigration(OutOfOrder, m, migrations, currentVersion) ==
    LET i == FirstMatch(m, migrations, 1) IN
    IF i # 0
    THEN IF m.Checksum = migrations[i].Checksum
         THEN "errMigrationValid"
         ELSE "errMigrationChecksumMismatch"
    ELSE IF m.Version = currentVersion THEN "errMigrationConflict"
    ELSE IF m.Version < currentVersion
         THEN IF OutOfOrder THEN "errNewMigration" ELSE "errMigrationOutOfOrder"
    ELSE "errNewMigration"

\* ---------------------------------------------------------- ApplyMigration
\* the read loop of ApplyMigration: collects the chunks into the query text
\* until io.EOF; another read error fails
RECURSIVE ApplyLoop(_, _, _)
ApplyLoop(reads, i, sb) ==
    IF reads[i].err = "EOF" THEN [err |-> "nil", query |-> sb]
    ELSE IF reads[i].err # "nil" THEN [err |-> "read", query |-> sb]
    ELSE ApplyLoop(reads, i + 1, sb \o reads[i].data)

\* variant: the ledger row is inserted although tx.Exec(query) failed
ApplyMigration_LogsAfterFailedExec(m, opened, reads, execOk, logOk) ==
    IF ~opened
    THEN [err |-> "nil", executed |-> FALSE, logged |-> FALSE, Success |-> FALSE]
    ELSE LET rd == ApplyLoop(reads, 1, <<>>) IN
         IF rd.err # "nil"
         THEN [err |-> "MigrationError", executed |-> FALSE, logged |-> FALSE, Success |-> FALSE]
         ELSE IF ~logOk
         THEN [err |-> "MigrationError", executed |-> execOk, logged |-> FALSE, Success |-> TRUE]
         ELSE [err |-> IF execOk THEN "nil" ELSE "MigrationError",
               executed |-> execOk, logged |-> TRUE, Success |-> TRUE]

\* opened: setFS.Open succeeded; reads: what the file answers to Read;
\* execOk: tx.Exec(query) succeeded; logOk: the ledger insert succeeded.
\* executed: the SQL text took effect in the transaction; logged: the
\* ledger row was inserted in the transaction.
ApplyMigration(m, opened, reads, execOk, logOk) ==
    IF ~opened
    THEN [err |-> "nil", executed |-> FALSE, logged |-> FALSE, Success |-> FALSE]
    ELSE LET rd == ApplyLoop(reads, 1, <<>>) IN
         IF rd.err # "nil"
         THEN [err |-> "MigrationError", executed |-> FALSE, logged |-> FALSE, Success |-> FALSE]
         ELSE IF ~execOk
         THEN [err |-> "MigrationError", executed |-> FALSE, logged |-> FALSE, Success |-> FALSE]
         ELSE IF ~logOk
         THEN [err |-> "MigrationError", executed |-> TRUE, logged |-> FALSE, Success |-> TRUE]
         ELSE [err |-> "nil", executed |-> TRUE, logged |-> TRUE, Success |-> TRUE]

\* ------------------------------------------------------ changeset directory
\* file names the directory may hold
Name1a  == <<49, 95, 95, 97, 46, 115, 113, 108>>        \* "1__a.sql"
Name2b  == <<50, 95, 95, 98, 46, 115, 113, 108>>        \* "2__b.sql"
Name2B  == <<50, 95, 95, 66, 46, 83, 81, 76>>           \* "2__B.SQL"
Name02c == <<48, 50, 95, 95, 99, 46, 115, 113, 108>>    \* "02__c.sql"
Name0z  == <<48, 95, 95, 122, 46, 115, 113, 108>>       \* "0__z.sql"
NameTxt == <<120, 46, 116, 120, 116>>                   \* "x.txt"
Name5u  == <<53, 95, 95, 95, 46, 115, 113, 108>>        \* "5___.sql"
Name4d  == <<52, 95, 95, 100, 46, 115, 113, 108>>       \* "4__d.sql", a directory

FileNames == {Name1a, Name2b, Name2B, Name02c, Name0z, NameTxt, Name5u}
DirNames  == {Name4d}

\* the contents a file may have: one file exists in two versions of its text
ContentsOf(n) == IF n = Name2b THEN {<<65>>, <<66>>} ELSE {<<65>>}

DiskEntries ==
    {e \in [name : FileNames, regular : {TRUE}, content : {<<65>>, <<66>>}] :
        e.content \in ContentsOf(e.name)}
    \cup {[name |-> n, regular |-> FALSE, content |-> <<>>] : n \in DirNames}

\* the directories: at most MaxFiles entries, with distinct names
IsDisk(d) ==
    /\ d \subseteq DiskEntries
    /\ Cardinality(d) <= MaxFiles
    /\ \A e, f \in d : e.name = f.name => e = f

\* fs.ReadDir: the entries of the directory sorted by file name
RECURSIVE ReadDir(_)
ReadDir(d) ==
    IF d = {} THEN <<>>
    ELSE LET first == CHOOSE e \in d : \A f \in d \ {e} : NameLess(e.name, f.name)
         IN  <<[name |-> first.name, regular |-> first.regular]>> \o ReadDir(d \ {first})

\* the orders in which the file system may enumerate the directory d
Enumerations(d) == Perms({[name |-> e.name, regular |-> e.regular] : e \in d})

\* variant: the entries are taken in the order of enumeration
fsReadDir_Unsorted(enum) == enum

\* fs.ReadDir(cfs, basepath) on a directory enumerated as enum: the entries
\* sorted by file name
fsReadDir(enum) == ReadDir(SeqSet(enum))

\* the bytes of the file called name
FileContent(d, name) == (CHOOSE e \in d : e.name = name).content

\* ------------------------------------------------------------------- state
VARIABLES
    disk,         \* the changeset directory: a set of [name, regular, content]
    tableExists,  \* the ledger table exists in the database
    ledger,       \* committed ledger rows, in insertion order
    executed,     \* files whose SQL text has taken effect and is committed
    procs,        \* the callers of Migrate that are active in this behaviour
    ds,           \* per caller: the data-source object [tx, successful]
    tx,           \* per caller: the open database transaction [rows, exec]
    pc,           \* per caller: position in Migrate
    run,          \* per caller: the locals of Migrate
    hist,         \* per caller: what the run has done so far
    runsDone,     \* number of finished runs
    prevOk,       \* the last run committed and the directory is unchanged since
    fn            \* a call of one of the package's functions: [op, in, out]

vars == <<disk, tableExists, ledger, executed, procs, ds, tx, pc, run, hist, runsDone,
          prevOk, fn>>

AllProcs == 1..NumProcs

NoRun == [OutOfOrder |-> FALSE, info |-> [Migrations |-> <<>>, Version |-> 0],
          entries |-> <<>>, idx |-> 0, ret |-> "none"]

NoHist == [applyCalls |-> <<>>, endCalls |-> 0, outcome |-> "none", faults |-> {},
           pre |-> <<>>, fresh |-> FALSE, afterOk |-> FALSE, began |-> FALSE,
           failedExec |-> {}, unhandled |-> {}, listed |-> FALSE, calls |-> <<>>]

NewDataSource == [tx |-> "nil", successful |-> FALSE]
NoTx == [rows |-> <<>>, exec |-> <<>>]
NoCall == [op |-> "none", in |-> <<>>, out |-> <<>>]

InitCommon ==
    /\ disk = {}
    /\ tableExists = FALSE
    /\ ledger = <<>>
    /\ executed = {}
    /\ ds = [p \in AllProcs |-> NewDataSource]
    /\ tx = [p \in AllProcs |-> NoTx]
    /\ pc = [p \in AllProcs |-> "idle"]
    /\ run = [p \in AllProcs |-> NoRun]
    /\ hist = [p \in AllProcs |-> NoHist]
    /\ runsDone = 0
    /\ prevOk = FALSE

Init == InitCommon /\ procs = {1} /\ fn = NoCall

\* ------------------------------------------------------- GetMigrationInfo
\* the rows as SELECT ... ORDER BY Version ASC may return them: any order of
\* the rows that is ascending in Version
SelectRows(rows) ==
    {[i \in 1..Len(rows) |-> rows[q[i]]] : q \in
        {q \in Perms(1..Len(rows)) :
            \A i \in 1..(Len(rows) - 1) : rows[q[i]].Version <= rows[q[i + 1]].Version}}

\* currentVersion: the Version of the last row returned, 0 without rows
LastVersion(migrations) ==
    IF Len(migrations) > 0 THEN migrations[Len(migrations)].Version ELSE 0

\* sort.Slice(info.Migrations, by Version): an insertion sort below 12 rows
RECURSIVE InsertRowLeft(_, _)
InsertRowLeft(s, j) ==
    IF j > 1 /\ s[j].Version < s[j - 1].Version
    THEN InsertRowLeft([s EXCEPT ![j] = s[j - 1], ![j - 1] = s[j]], j - 1)
    ELSE s

RECURSIVE SortMigrations(_, _)
SortMigrations(s, i) ==
    IF i > Len(s) THEN s ELSE SortMigrations(InsertRowLeft(s, i), i + 1)

\* ----------------------------------------------------------------- actions
Idle == \A p \in AllProcs : pc[p] = "idle"

\* the changeset directory is edited between runs: one file is written
\* (created or replaced) or removed
EditDisk ==
    /\ Idle
    /\ runsDone < MaxRuns
    /\ \E e \in DiskEntries :
          LET d == IF e \in disk THEN disk \ {e}
                   ELSE {f \in disk : f.name # e.name} \cup {e}
          IN  IsDisk(d) /\ disk' = d
    /\ prevOk' = FALSE
    /\ UNCHANGED <<tableExists, ledger, executed, procs, ds, tx, pc, run, hist, runsDone, fn>>

\* a caller invokes Migrate, on a new data source or on the one it has;
\* fresh records that the data source is as its constructor returns it
StartRun(p) ==
    /\ pc[p] = "idle"
    /\ runsDone < MaxRuns
    /\ \E ooo \in BOOLEAN, d \in {NewDataSource, ds[p]} :
          /\ run' = [run EXCEPT ![p] = [NoRun EXCEPT !.OutOfOrder = ooo]]
          /\ hist' = [hist EXCEPT ![p] = [NoHist EXCEPT !.fresh = (d = NewDataSource),
                                                        !.afterOk = prevOk,
                                                        !.pre = ledger]]
          /\ ds' = [ds EXCEPT ![p] = d]
    /\ pc' = [pc EXCEPT ![p] = "getInfo"]
    /\ UNCHANGED <<disk, tableExists, ledger, executed, procs, tx, runsDone, prevOk, fn>>

\* Migrate returns err before the transaction exists: nothing is deferred;
\* called lists the methods of the data source called in this step
ReturnEarly(p, err, fault, called) ==
    /\ run' = [run EXCEPT ![p].ret = err]
    /\ hist' = [hist EXCEPT ![p].faults = @ \cup fault,
                            ![p].listed = @ \/ pc[p] = "readDir",
                            ![p].calls = @ \o called]
    /\ pc' = [pc EXCEPT ![p] = "done"]

\* variant: the result of GetMigrationInfo is used without the guard
GetMigrationInfo_NoGuard(p) ==
    /\ pc[p] = "getInfo"
    /\ \/ /\ ReturnEarly(p, "ledger", {"ledger"}, <<"GetMigrationInfo">>)
          /\ UNCHANGED tableExists
       \/ /\ tableExists
          /\ \E rows \in SelectRows(ledger) :
                LET info == [Migrations |-> rows, Version |-> LastVersion(rows)] IN
                /\ run' = [run EXCEPT ![p].info =
                              [info EXCEPT !.Migrations = SortMigrations(@, 2)]]
                /\ pc' = [pc EXCEPT ![p] = "readDir"]
                /\ hist' = [hist EXCEPT ![p].calls =
                            @ \o <<"GetMigrationInfo", "GetChangeSetFileSystem">>]
          /\ UNCHANGED tableExists
       \/ /\ ~tableExists
          /\ tableExists' = TRUE
          /\ run' = [run EXCEPT ![p].info = [Migrations |-> <<>>, Version |-> 0]]
          /\ pc' = [pc EXCEPT ![p] = "readDir"]
          /\ hist' = [hist EXCEPT ![p].calls =
                            @ \o <<"GetMigrationInfo", "GetChangeSetFileSystem">>]
    /\ UNCHANGED <<disk, ledger, executed, procs, ds, tx, runsDone, prevOk, fn>>

\* variant: the rows are selected in the order of their insertion
GetMigrationInfo_InsertionOrder(p) ==
    /\ pc[p] = "getInfo"
    /\ \/ /\ ReturnEarly(p, "ledger", {"ledger"}, <<"GetMigrationInfo">>)
          /\ UNCHANGED tableExists
       \/ /\ tableExists
          /\ LET info == [Migrations |-> ledger, Version |-> LastVersion(ledger)] IN
                IF Len(info.Migrations) > 0 /\ info.Version = 0
                THEN /\ run' = [run EXCEPT ![p].info = info, ![p].ret = "invariant"]
                     /\ pc' = [pc EXCEPT ![p] = "done"]
                     /\ hist' = [hist EXCEPT ![p].calls = Append(@, "GetMigrationInfo")]
                ELSE /\ run' = [run EXCEPT ![p].info =
                                   [info EXCEPT !.Migrations = SortMigrations(@, 2)]]
                     /\ pc' = [pc EXCEPT ![p] = "readDir"]
                     /\ hist' = [hist EXCEPT ![p].calls =
                            @ \o <<"GetMigrationInfo", "GetChangeSetFileSystem">>]
          /\ UNCHANGED tableExists
       \/ /\ ~tableExists
          /\ tableExists' = TRUE
          /\ run' = [run EXCEPT ![p].info = [Migrations |-> <<>>, Version |-> 0]]
          /\ pc' = [pc EXCEPT ![p] = "readDir"]
          /\ hist' = [hist EXCEPT ![p].calls =
                            @ \o <<"GetMigrationInfo", "GetChangeSetFileSystem">>]
    /\ UNCHANGED <<disk, ledger, executed, procs, ds, tx, runsDone, prevOk, fn>>

\* ds.GetMigrationInfo(), the guard on its result, and the re-sort
GetMigrationInfo(p) ==
    /\ pc[p] = "getInfo"
    /\ \/ /\ ReturnEarly(p, "ledger", {"ledger"}, <<"GetMigrationInfo">>)
          /\ UNCHANGED tableExists
       \/ /\ tableExists
          /\ \E rows \in SelectRows(ledger) :
                LET info == [Migrations |-> rows, Version |-> LastVersion(rows)] IN
                IF Len(info.Migrations) > 0 /\ info.Version = 0
                THEN /\ run' = [run EXCEPT ![p].info = info, ![p].ret = "invariant"]
                     /\ pc' = [pc EXCEPT ![p] = "done"]
                     /\ hist' = [hist EXCEPT ![p].calls = Append(@, "GetMigrationInfo")]
                ELSE /\ run' = [run EXCEPT ![p].info =
                                   [info EXCEPT !.Migrations = SortMigrations(@, 2)]]
                     /\ pc' = [pc EXCEPT ![p] = "readDir"]
                     /\ hist' = [hist EXCEPT ![p].calls =
                            @ \o <<"GetMigrationInfo", "GetChangeSetFileSystem">>]
          /\ UNCHANGED tableExists
       \/ /\ ~tableExists
          /\ tableExists' = TRUE
          /\ run' = [run EXCEPT ![p].info = [Migrations |-> <<>>, Version |-> 0]]
          /\ pc' = [pc EXCEPT ![p] = "readDir"]
          /\ hist' = [hist EXCEPT ![p].calls =
                            @ \o <<"GetMigrationInfo", "GetChangeSetFileSystem">>]
    /\ UNCHANGED <<disk, ledger, executed, procs, ds, tx, runsDone, prevOk, fn>>

\* fs.ReadDir(cfs, basepath) and SortDirectoryEntries(entries)
ListEntries(p) ==
    /\ pc[p] = "readDir"
    /\ \/ ReturnEarly(p, "readDir", {"readDir"}, <<"GetPath">>)
       \/ \E enum \in Enumerations(disk) :
          LET sorted == SortDirectoryEntries(fsReadDir(enum)) IN
          IF sorted.err # "nil"
          THEN ReturnEarly(p, "sort", {}, <<"GetPath">>)
          ELSE /\ run' = [run EXCEPT ![p].entries = sorted.entries, ![p].idx = 1]
               /\ pc' = [pc EXCEPT ![p] = "begin"]
               /\ hist' = [hist EXCEPT ![p].listed = TRUE,
                                       ![p].calls = Append(@, "GetPath")]
    /\ UNCHANGED <<disk, tableExists, ledger, executed, procs, ds, tx, runsDone, prevOk, fn>>

\* variant: EndTransaction is deferred before BeginTransaction is called
BeginTransaction_DeferredFirst(p) ==
    /\ pc[p] = "begin"
    /\ \/ /\ ds[p].tx # "nil"
          /\ run' = [run EXCEPT ![p].ret = "begin"]
          /\ hist' = [hist EXCEPT ![p].calls = Append(@, "BeginTransaction")]
          /\ pc' = [pc EXCEPT ![p] = "end"]
          /\ UNCHANGED <<ds, tx>>
       \/ /\ ds[p].tx = "nil"
          /\ run' = [run EXCEPT ![p].ret = "begin"]
          /\ hist' = [hist EXCEPT ![p].faults = @ \cup {"begin"},
                                  ![p].calls = Append(@, "BeginTransaction")]
          /\ pc' = [pc EXCEPT ![p] = "end"]
          /\ UNCHANGED <<ds, tx>>
       \/ /\ ds[p].tx = "nil"
          /\ ds' = [ds EXCEPT ![p].tx = "active"]
          /\ tx' = [tx EXCEPT ![p] = NoTx]
          /\ hist' = [hist EXCEPT ![p].began = TRUE,
                                  ![p].calls = Append(@, "BeginTransaction")]
          /\ pc' = [pc EXCEPT ![p] = "loop"]
          /\ UNCHANGED run
    /\ UNCHANGED <<disk, tableExists, ledger, executed, procs, runsDone, prevOk, fn>>

\* variant: the error of BeginTransaction is dropped and the loop is entered
BeginTransaction_ErrorIgnored(p) ==
    /\ pc[p] = "begin"
    /\ \/ /\ ds[p].tx # "nil"
          /\ hist' = [hist EXCEPT ![p].calls = Append(@, "BeginTransaction")]
          /\ pc' = [pc EXCEPT ![p] = "loop"]
          /\ UNCHANGED <<ds, tx, run>>
       \/ /\ ds[p].tx = "nil"
          /\ ReturnEarly(p, "begin", {"begin"}, <<"BeginTransaction">>)
          /\ UNCHANGED <<ds, tx>>
       \/ /\ ds[p].tx = "nil"
          /\ ds' = [ds EXCEPT ![p].tx = "active"]
          /\ tx' = [tx EXCEPT ![p] = NoTx]
          /\ hist' = [hist EXCEPT ![p].began = TRUE,
                                  ![p].calls = Append(@, "BeginTransaction")]
          /\ pc' = [pc EXCEPT ![p] = "loop"]
          /\ UNCHANGED run
    /\ UNCHANGED <<disk, tableExists, ledger, executed, procs, runsDone, prevOk, fn>>

\* ds.BeginTransaction(); on success EndTransaction is deferred
BeginTransaction(p) ==
    /\ pc[p] = "begin"
    /\ \/ /\ ds[p].tx # "nil"
          /\ ReturnEarly(p, "begin", {}, <<"BeginTransaction">>)
          /\ UNCHANGED <<ds, tx>>
       \/ /\ ds[p].tx = "nil"
          /\ ReturnEarly(p, "begin", {"begin"}, <<"BeginTransaction">>)
          /\ UNCHANGED <<ds, tx>>
       \/ /\ ds[p].tx = "nil"
          /\ ds' = [ds EXCEPT ![p].tx = "active"]
          /\ tx' = [tx EXCEPT ![p] = NoTx]
          /\ hist' = [hist EXCEPT ![p].began = TRUE,
                                  ![p].calls = Append(@, "BeginTransaction")]
          /\ pc' = [pc EXCEPT ![p] = "loop"]
          /\ UNCHANGED run
    /\ UNCHANGED <<disk, tableExists, ledger, executed, procs, runsDone, prevOk, fn>>

\* variant: a return from inside the loop leaves the function at once
ReturnFromLoop_NoDefer(p, err, fault) ==
    /\ run' = [run EXCEPT ![p].ret = err]
    /\ hist' = [hist EXCEPT ![p].faults = @ \cup fault]
    /\ pc' = [pc EXCEPT ![p] = "done"]
    /\ UNCHANGED tx

\* Migrate returns err from inside the loop: the deferred call is pending
ReturnFromLoop(p, err, fault) ==
    /\ run' = [run EXCEPT ![p].ret = err]
    /\ hist' = [hist EXCEPT ![p].faults = @ \cup fault]
    /\ pc' = [pc EXCEPT ![p] = "end"]
    /\ UNCHANGED tx

NextEntry(p) ==
    /\ run' = [run EXCEPT ![p].idx = @ + 1]
    /\ UNCHANGED <<pc, tx, fn>>

LedgerRow(m) == [File |-> m.File, Name |-> m.Name, Version |-> m.Version,
                 Checksum |-> m.Checksum]

\* variant: currentVersion follows the version of the changeset just applied
ApplyStep_TracksVersion(p, m) ==
    \E fault \in {"none", "applyOpen", "applyRead", "exec", "log"} :
        LET a == ApplyMigration(m, fault # "applyOpen",
                                IF fault = "applyRead" THEN FailingReads
                                ELSE StdReads(FileContent(disk, m.File)),
                                fault # "exec", fault # "log")
            h == [hist[p] EXCEPT
                    !.applyCalls = Append(@, m.File),
                    !.calls = Append(@, "ApplyMigration"),
                    !.faults = @ \cup ({fault} \ {"none"}),
                    !.failedExec = @ \cup (IF fault = "exec" THEN {m.File} ELSE {}),
                    !.unhandled = @ \cup (IF ~a.logged THEN {m.File} ELSE {})]
        IN
        /\ tx' = [tx EXCEPT ![p].exec = IF a.executed THEN Append(@, m.File) ELSE @,
                            ![p].rows = IF a.logged THEN Append(@, LedgerRow(m)) ELSE @]
        /\ hist' = [hist EXCEPT ![p] = h]
        /\ IF a.err # "nil"
           THEN /\ run' = [run EXCEPT ![p].ret = "apply"]
                /\ pc' = [pc EXCEPT ![p] = "end"]
           ELSE /\ run' = [run EXCEPT ![p].idx = @ + 1, ![p].info.Version = m.Version]
                /\ UNCHANGED pc

\* case errNewMigration: ds.ApplyMigration(m)
ApplyStep(p, m) ==
    \E fault \in {"none", "applyOpen", "applyRead", "exec", "log"} :
        LET a == ApplyMigration(m, fault # "applyOpen",
                                IF fault = "applyRead" THEN FailingReads
                                ELSE StdReads(FileContent(disk, m.File)),
                                fault # "exec", fault # "log")
            h == [hist[p] EXCEPT
                    !.applyCalls = Append(@, m.File),
                    !.calls = Append(@, "ApplyMigration"),
                    !.faults = @ \cup ({fault} \ {"none"}),
                    !.failedExec = @ \cup (IF fault = "exec" THEN {m.File} ELSE {}),
                    !.unhandled = @ \cup (IF ~a.logged THEN {m.File} ELSE {})]
        IN
        /\ tx' = [tx EXCEPT ![p].exec = IF a.executed THEN Append(@, m.File) ELSE @,
                            ![p].rows = IF a.logged THEN Append(@, LedgerRow(m)) ELSE @]
        /\ hist' = [hist EXCEPT ![p] = h]
        /\ IF a.err # "nil"
           THEN /\ run' = [run EXCEPT ![p].ret = "apply"]
                /\ pc' = [pc EXCEPT ![p] = "end"]
           ELSE /\ run' = [run EXCEPT ![p].idx = @ + 1]
                /\ UNCHANGED pc

\* one iteration of the loop over the sorted entries
ProcessEntry(p) ==
    /\ pc[p] = "loop"
    /\ run[p].idx <= Len(run[p].entries)
    /\ LET entry == run[p].entries[run[p].idx] IN
       IF ~IsCandidate(entry)
       THEN NextEntry(p) /\ UNCHANGED hist
       ELSE LET parsed == ParseMigration(entry.name) IN
            IF parsed.err # "nil"
            THEN ReturnFromLoop(p, "parse", {})
            ELSE \E fault \in {"none", "hashOpen", "hashRead"} :
                 LET h == HashFile(fault # "hashOpen",
                                   IF fault = "hashRead" THEN FailingReads
                                   ELSE StdReads(FileContent(disk, entry.name)))
                     m == [File |-> parsed.File, Name |-> parsed.Name,
                           Version |-> parsed.Version, Checksum |-> h.sum]
                     e == verifyFsMigration(run[p].OutOfOrder, m,
                                            run[p].info.Migrations, run[p].info.Version)
                 IN
                 IF h.err # "nil"
                 THEN ReturnFromLoop(p, "hash", {fault})
                 ELSE CASE e = "errMigrationChecksumMismatch" ->
                             ReturnFromLoop(p, "checksum", {})
                        [] e = "errMigrationValid" ->
                             NextEntry(p) /\ UNCHANGED hist
                        [] e = "errNewMigration" ->
                             ApplyStep(p, m)
                        [] e = "errMigrationConflict" ->
                             ReturnFromLoop(p, "conflict", {})
                        [] e = "errMigrationOutOfOrder" ->
                             ReturnFromLoop(p, "outOfOrder", {})
    /\ UNCHANGED <<disk, tableExists, ledger, executed, procs, ds, runsDone, prevOk, fn>>

\* after the loop: ds.SetTransactionSuccessful(true); return nil
SetTransactionSuccessful(p) ==
    /\ pc[p] = "loop"
    /\ run[p].idx > Len(run[p].entries)
    /\ ds' = [ds EXCEPT ![p].successful = TRUE]
    /\ run' = [run EXCEPT ![p].ret = "nil"]
    /\ hist' = [hist EXCEPT ![p].calls = Append(@, "SetTransactionSuccessful")]
    /\ pc' = [pc EXCEPT ![p] = "end"]
    /\ UNCHANGED <<disk, tableExists, ledger, executed, procs, tx, runsDone, prevOk, fn>>

\* variant: Commit writes the rows of the transaction in place of the table
EndTransaction_Overwrites(p) ==
    /\ pc[p] = "end"
    /\ \/ /\ ds[p].successful
          /\ \E commitOk \in BOOLEAN :
                IF commitOk
                THEN /\ ledger' = tx[p].rows
                     /\ executed' = executed \cup {tx[p].exec[i] : i \in 1..Len(tx[p].exec)}
                     /\ hist' = [hist EXCEPT ![p].endCalls = @ + 1, ![p].outcome = "commit",
                                             ![p].calls = Append(@, "EndTransaction")]
                ELSE /\ UNCHANGED <<ledger, executed>>
                     /\ hist' = [hist EXCEPT ![p].endCalls = @ + 1,
                                             ![p].outcome = "commitFailed",
                                             ![p].faults = @ \cup {"commit"},
                                             ![p].calls = Append(@, "EndTransaction")]
       \/ /\ ~ds[p].successful
          /\ UNCHANGED <<ledger, executed>>
          /\ hist' = [hist EXCEPT ![p].endCalls = @ + 1, ![p].outcome = "rollback",
                                  ![p].calls = Append(@, "EndTransaction")]
    /\ ds' = [ds EXCEPT ![p].tx = "finished"]
    /\ tx' = [tx EXCEPT ![p] = NoTx]
    /\ pc' = [pc EXCEPT ![p] = "done"]
    /\ UNCHANGED <<disk, tableExists, procs, run, runsDone, prevOk, fn>>

\* the deferred ds.EndTransaction(): Commit when successful, else Rollback;
\* the result of Commit is dropped
EndTransaction(p) ==
    /\ pc[p] = "end"
    /\ \/ /\ ds[p].successful
          /\ \E commitOk \in BOOLEAN :
                IF commitOk
                THEN /\ ledger' = ledger \o tx[p].rows
                     /\ executed' = executed \cup {tx[p].exec[i] : i \in 1..Len(tx[p].exec)}
                     /\ hist' = [hist EXCEPT ![p].endCalls = @ + 1, ![p].outcome = "commit",
                                             ![p].calls = Append(@, "EndTransaction")]
                ELSE /\ UNCHANGED <<ledger, executed>>
                     /\ hist' = [hist EXCEPT ![p].endCalls = @ + 1,
                                             ![p].outcome = "commitFailed",
                                             ![p].faults = @ \cup {"commit"},
                                             ![p].calls = Append(@, "EndTransaction")]
       \/ /\ ~ds[p].successful
          /\ UNCHANGED <<ledger, executed>>
          /\ hist' = [hist EXCEPT ![p].endCalls = @ + 1, ![p].outcome = "rollback",
                                  ![p].calls = Append(@, "EndTransaction")]
    /\ ds' = [ds EXCEPT ![p].tx = "finished"]
    /\ tx' = [tx EXCEPT ![p] = NoTx]
    /\ pc' = [pc EXCEPT ![p] = "done"]
    /\ UNCHANGED <<disk, tableExists, procs, run, runsDone, prevOk, fn>>

\* the caller has the result of Migrate
Return(p) ==
    /\ pc[p] = "done"
    /\ prevOk' = (run[p].ret = "nil" /\ hist[p].outcome = "commit")
    /\ runsDone' = runsDone + 1
    /\ run' = [run EXCEPT ![p] = NoRun]
    /\ hist' = [hist EXCEPT ![p] = NoHist]
    /\ pc' = [pc EXCEPT ![p] = "idle"]
    /\ UNCHANGED <<disk, tableExists, ledger, executed, procs, ds, tx, fn>>

Next ==
    \/ EditDisk
    \/ \E p \in procs : StartRun(p)
    \/ \E p \in procs : GetMigrationInfo(p)
    \/ \E p \in procs : ListEntries(p)
    \/ \E p \in procs : BeginTransaction(p)
    \/ \E p \in procs : ProcessEntry(p)
    \/ \E p \in procs : SetTransactionSuccessful(p)
    \/ \E p \in procs : EndTransaction(p)
    \/ \E p \in procs : Return(p)

Spec == Init /\ [][Next]_vars

\* --------------------------------------------- the ledger edited from outside
\* a row whose version column is 0
CorruptRow == [File |-> Name0z, Name |-> <<122, 46, 115, 113, 108>>, Version |-> 0,
               Checksum |-> {}]

\* another client of the database rewrites the ledger table between runs:
\* every version becomes 0, or a row with version 0 is put into the empty
\* table
TamperLedger ==
    /\ Idle
    /\ runsDone < MaxRuns
    /\ tableExists
    /\ \/ /\ ledger = <<>>
          /\ ledger' = <<CorruptRow>>
       \/ /\ \E i \in 1..Len(ledger) : ledger[i].Version # 0
          /\ ledger' = [i \in 1..Len(ledger) |-> [ledger[i] EXCEPT !.Version = 0]]
    /\ prevOk' = FALSE
    /\ UNCHANGED <<disk, tableExists, executed, procs, ds, tx, pc, run, hist, runsDone, fn>>

NextTamper == Next \/ TamperLedger

SpecTamper == Init /\ [][NextTamper]_vars

\* ------------------------------------------- the functions on a file name
\* all byte strings over A of length at most n
Strings(A, n) == UNION {[1..k -> A] : k \in 0..n}

\* the bytes the names are made of: "0", "1", "9", "_", "a" and the byte
\* 0xFF, which is part of no UTF-8 encoding
NameAlphabet == {48, 49, 57, 95, 97, 255}

\* names of the tests and of the documentation
NameBaseline == <<48, 48, 48, 48, 48, 48, 49, 95, 95, 98, 97, 115, 101, 108, 105, 110,
                  101, 46, 115, 113, 108>>                    \* "0000001__baseline.sql"
NameAbc == <<97, 98, 99, 95, 95, 120, 46, 115, 113, 108>>     \* "abc__x.sql"
Name12u1 == <<49, 50, 95, 120, 46, 115, 113, 108>>            \* "12_x.sql"
Name12u3 == <<49, 50, 95, 95, 95, 120, 46, 115, 113, 108>>    \* "12___x.sql"

NameInputs ==
    Strings(NameAlphabet, MaxNameLen) \cup {NameBaseline, NameAbc, Name12u1, Name12u3}

InitParse ==
    /\ InitCommon
    /\ procs = {}
    /\ fn \in {[op |-> "none", in |-> n, out |-> <<>>] : n \in NameInputs}

\* a caller parses the file name
CallParseMigration ==
    /\ fn.op = "none"
    /\ fn' = [op |-> "ParseMigration", in |-> fn.in, out |-> ParseMigration(fn.in)]
    /\ UNCHANGED <<disk, tableExists, ledger, executed, procs, ds, tx, pc, run, hist,
                   runsDone, prevOk>>

NextParse == CallParseMigration

SpecParse == InitParse /\ [][NextParse]_vars

\* ------------------------------ a directory with versions far from each other
\* a changeset with the highest version the integer holds, a changeset with
\* a lower version whose name lists after it, and a text file whose name
\* starts with a negative number
NameMax == <<49, 50, 55, 95, 95, 97, 46, 115, 113, 108>>     \* "127__a.sql"
Name93  == <<57, 51, 95, 95, 98, 46, 115, 113, 108>>         \* "93__b.sql"
NameNeg == <<45, 49, 95, 95, 120, 46, 116, 120, 116>>        \* "-1__x.txt"

WideEntries == [name : {NameMax, Name93, NameNeg}, regular : {TRUE}, content : {<<65>>}]

\* one of these files is written or removed between runs
EditDiskWide ==
    /\ Idle
    /\ runsDone < MaxRuns
    /\ \E e \in WideEntries :
          disk' = IF e \in disk THEN disk \ {e} ELSE disk \cup {e}
    /\ prevOk' = FALSE
    /\ UNCHANGED <<tableExists, ledger, executed, procs, ds, tx, pc, run, hist, runsDone, fn>>

NextWide ==
    \/ EditDiskWide
    \/ \E p \in procs : StartRun(p)
    \/ \E p \in procs : GetMigrationInfo(p)
    \/ \E p \in procs : ListEntries(p)
    \/ \E p \in procs : BeginTransaction(p)
    \/ \E p \in procs : ProcessEntry(p)
    \/ \E p \in procs : SetTransactionSuccessful(p)
    \/ \E p \in procs : EndTransaction(p)
    \/ \E p \in procs : Return(p)

SpecWide == Init /\ [][NextWide]_vars

\* ------------------------------------------------------ the sorter alone
\* names with the versions of the test directory (1, 9, 10, 11), a name
\* with version 0 and a second name with version 1
Sort1  == <<49, 95, 95, 97>>            \* "1__a"
Sort9  == <<57, 95, 95, 97>>            \* "9__a"
Sort10 == <<49, 48, 95, 95, 97>>        \* "10__a"
Sort11 == <<49, 49, 95, 95, 97>>        \* "11__a"
Sort0  == <<48, 95, 95, 97>>            \* "0__a"
Sort01 == <<48, 49, 95, 95, 97>>        \* "01__a"

SortNames == {Sort1, Sort9, Sort10, Sort11, Sort0, Sort01}

\* the listings: up to MaxSortLen entries with distinct names, in any order
SortInputs ==
    {q \in UNION {[1..k -> [name : SortNames, regular : {TRUE}]] : k \in 0..MaxSortLen} :
        \A i, j \in 1..Len(q) : q[i].name = q[j].name => i = j}

InitSort ==
    /\ InitCommon
    /\ procs = {}
    /\ fn \in {[op |-> "none", in |-> q, out |-> <<>>] : q \in SortInputs}

\* a caller sorts the listing
CallSortDirectoryEntries ==
    /\ fn.op = "none"
    /\ fn' = [op |-> "SortDirectoryEntries", in |-> fn.in,
              out |-> SortDirectoryEntries(fn.in)]
    /\ UNCHANGED <<disk, tableExists, ledger, executed, procs, ds, tx, pc, run, hist,
                   runsDone, prevOk>>

NextSort == CallSortDirectoryEntries

SpecSort == InitSort /\ [][NextSort]_vars

\* ---------------------------------------------------------- HashFile alone
\* the file contents: byte strings of "A" and "B"
HashContents == Strings({65, 66}, MaxContentLen)

\* the ways to cut c into non-empty pieces of at most BufSize bytes
RECURSIVE Chunks(_)
Chunks(c) ==
    IF c = <<>> THEN {<<>>}
    ELSE UNION {{<<SubSeq(c, 1, k)>> \o rest : rest \in Chunks(SubSeq(c, k + 1, Len(c)))} :
                    k \in {k \in 1..Len(c) : k <= BufSize}}

\* the Read results for the pieces ch: the last piece arrives together with
\* io.EOF, or io.EOF arrives alone after it (io.Reader allows both)
ReadsOf(ch, eofWithData) ==
    IF eofWithData
    THEN [i \in 1..Len(ch) |-> [data |-> ch[i],
                                err |-> IF i = Len(ch) THEN "EOF" ELSE "nil"]]
    ELSE [i \in 1..Len(ch) |-> [data |-> ch[i], err |-> "nil"]]
         \o << [data |-> <<>>, err |-> "EOF"] >>

ReadPlans(c) ==
    {ReadsOf(ch, FALSE) : ch \in Chunks(c)}
    \cup {ReadsOf(ch, TRUE) : ch \in Chunks(c) \ {<<>>}}

HashInputs == UNION {{[content |-> c, reads |-> r] : r \in ReadPlans(c)} : c \in HashContents}

InitHash ==
    /\ InitCommon
    /\ procs = {}
    /\ fn \in {[op |-> "none", in |-> i, out |-> <<>>] : i \in HashInputs}

\* a caller hashes the file, which opens
CallHashFile ==
    /\ fn.op = "none"
    /\ fn' = [op |-> "HashFile", in |-> fn.in, out |-> HashFile(TRUE, fn.in.reads)]
    /\ UNCHANGED <<disk, tableExists, ledger, executed, procs, ds, tx, pc, run, hist,
                   runsDone, prevOk>>

NextHash == CallHashFile

SpecHash == InitHash /\ [][NextHash]_vars

\* ------------------------------------------------------- the constructors
\* strings.TrimSpace on space, tab and other bytes
IsSpace(r) == r \in {9, 10, 13, 32}

RECURSIVE TrimSpaceLeft(_)
TrimSpaceLeft(s) == IF s # <<>> /\ IsSpace(Head(s)) THEN TrimSpaceLeft(Tail(s)) ELSE s

RECURSIVE TrimSpaceRight(_)
TrimSpaceRight(s) ==
    IF s # <<>> /\ IsSpace(s[Len(s)]) THEN TrimSpaceRight(SubSeq(s, 1, Len(s) - 1)) ELSE s

TrimSpace(s) == TrimSpaceRight(TrimSpaceLeft(s))

\* a *dsync.Config: the nil pointer, or a Config with its fields
NilConfig == [isNil |-> TRUE, FileSystem |-> "nil", Basepath |-> <<>>, TableName |-> <<>>]

Configs ==
    {NilConfig} \cup
    [isNil : {FALSE}, FileSystem : {"nil", "fs"},
     Basepath : Strings({9, 32, 109}, MaxPathLen), TableName : {<<>>, <<116>>}]

\* (cfg *Config) validate
validate(cfg) ==
    IF cfg.FileSystem = "nil" THEN "missing migration changeset source"
    ELSE IF Len(TrimSpace(cfg.Basepath)) = 0 THEN "empty basepath"
    ELSE "nil"

ValidateConfig(cfg) ==
    IF cfg.isNil THEN "null configuration" ELSE validate(cfg)

\* what a constructor call comes to: res is "ds", "error" or "panic";
\* opened: sql.Open was called; pinged: db.Ping was called
Built(res, opened, pinged) == [res |-> res, opened |-> opened, pinged |-> pinged]

\* create(db, cfg) of the postgresql and sqlite packages: Ping, then the
\* data source from the fields of cfg
create(cfg, opened, pingOk) ==
    IF ~pingOk THEN Built("error", opened, TRUE)
    ELSE IF cfg.isNil THEN Built("panic", opened, TRUE)
    ELSE Built("ds", opened, TRUE)

\* postgresql.Wrap and sqlite.Wrap
Wrap(cfg, pingOk) ==
    IF ValidateConfig(cfg) # "nil" THEN Built("error", FALSE, FALSE)
    ELSE create(cfg, FALSE, pingOk)

\* postgresql.New and sqlite.New
pgNew(cfg, openOk, pingOk) ==
    IF ValidateConfig(cfg) # "nil" THEN Built("error", FALSE, FALSE)
    ELSE IF ~openOk THEN Built("error", TRUE, FALSE)
    ELSE create(cfg, TRUE, pingOk)

\* mysql.New: the struct literal reads cfg.TableNameOrDefault(),
\* cfg.Basepath and cfg.FileSystem before ValidateConfig(cfg) is called; on
\* a nil cfg this is a nil pointer dereference
mysqlNew(cfg, openOk, pingOk) ==
    IF cfg.isNil THEN Built("panic", FALSE, FALSE)
    ELSE IF ValidateConfig(cfg) # "nil" THEN Built("error", FALSE, FALSE)
    ELSE IF ~openOk THEN Built("error", TRUE, FALSE)
    ELSE IF ~pingOk THEN Built("error", TRUE, TRUE)
    ELSE Built("ds", TRUE, TRUE)

Constructors == {"postgresql.New", "postgresql.Wrap", "mysql.New", "sqlite.New", "sqlite.Wrap"}

Construct(c, cfg, openOk, pingOk) ==
    CASE c \in {"postgresql.Wrap", "sqlite.Wrap"} -> Wrap(cfg, pingOk)
      [] c \in {"postgresql.New", "sqlite.New"} -> pgNew(cfg, openOk, pingOk)
      [] c = "mysql.New" -> mysqlNew(cfg, openOk, pingOk)

InitNew ==
    /\ InitCommon
    /\ procs = {}
    /\ fn \in {[op |-> "none", in |-> i, out |-> <<>>] :
                 i \in [ctor : Constructors, cfg : Configs,
                        openOk : BOOLEAN, pingOk : BOOLEAN]}

\* a caller constructs a data source
CallConstructor ==
    /\ fn.op = "none"
    /\ fn' = [op |-> "New", in |-> fn.in,
              out |-> Construct(fn.in.ctor, fn.in.cfg, fn.in.openOk, fn.in.pingOk)]
    /\ UNCHANGED <<disk, tableExists, ledger, executed, procs, ds, tx, pc, run, hist,
                   runsDone, prevOk>>

NextNew == CallConstructor

SpecNew == InitNew /\ [][NextNew]_vars

\* ------------------------------- the transaction methods of a data source
\* a client calls BeginTransaction, SetTransactionSuccessful and
\* EndTransaction of data source 1 in any order; fn.in lists the calls made
\* so far with their results, fn.out is the result of the last one
InitApi ==
    /\ InitCommon
    /\ procs = {1}
    /\ fn = [op |-> "none", in |-> <<>>, out |-> "none"]

\* the client can make a further call: the last one did not panic
CanCall == fn.out # "panic" /\ Len(fn.in) < MaxCalls

Called(op, out) == [op |-> op, in |-> Append(fn.in, <<op, out>>), out |-> out]

\* ds.BeginTransaction() called by the client
ApiBeginTransaction ==
    /\ CanCall
    /\ \/ /\ ds[1].tx # "nil"
          /\ fn' = Called("BeginTransaction", "error")
          /\ UNCHANGED ds
       \/ /\ ds[1].tx = "nil"
          /\ fn' = Called("BeginTransaction", "error")
          /\ UNCHANGED ds
       \/ /\ ds[1].tx = "nil"
          /\ ds' = [ds EXCEPT ![1].tx = "active"]
          /\ fn' = Called("BeginTransaction", "nil")
    /\ UNCHANGED <<disk, tableExists, ledger, executed, procs, tx, pc, run, hist,
                   runsDone, prevOk>>

\* ds.SetTransactionSuccessful(b) called by the client
ApiSetTransactionSuccessful ==
    /\ CanCall
    /\ \E b \in BOOLEAN :
          /\ ds' = [ds EXCEPT ![1].successful = b]
          /\ fn' = Called("SetTransactionSuccessful", IF b THEN "true" ELSE "false")
    /\ UNCHANGED <<disk, tableExists, ledger, executed, procs, tx, pc, run, hist,
                   runsDone, prevOk>>

\* ds.EndTransaction() called by the client: ds.tx.Commit() or
\* ds.tx.Rollback(); on the nil *sql.Tx either call dereferences nil, on a
\* transaction that is over either call returns sql.ErrTxDone, which is
\* dropped
ApiEndTransaction ==
    /\ CanCall
    /\ CASE ds[1].tx = "nil" ->
               /\ fn' = Called("EndTransaction", "panic")
               /\ UNCHANGED <<ds, ledger, executed, tx>>
         [] ds[1].tx = "active" ->
               /\ fn' = Called("EndTransaction", "returned")
               /\ ds' = [ds EXCEPT ![1].tx = "finished"]
               /\ IF ds[1].successful
                  THEN \E commitOk \in BOOLEAN :
                          /\ ledger' = IF commitOk THEN ledger \o tx[1].rows ELSE ledger
                          /\ executed' = IF commitOk
                                          THEN executed \cup SeqSet(tx[1].exec)
                                          ELSE executed
                  ELSE UNCHANGED <<ledger, executed>>
               /\ tx' = [tx EXCEPT ![1] = NoTx]
         [] OTHER ->
               /\ fn' = Called("EndTransaction", "returned")
               /\ UNCHANGED <<ds, ledger, executed, tx>>
    /\ UNCHANGED <<disk, tableExists, procs, pc, run, hist, runsDone, prevOk>>

NextApi ==
    \/ ApiBeginTransaction
    \/ ApiSetTransactionSuccessful
    \/ ApiEndTransaction

SpecApi == InitApi /\ [][NextApi]_vars

\* --------------------------------------- a database that was migrated before
\* the state after a first run that applied "2__b.sql" and committed
Row2b == [File |-> Name2b, Name |-> <<98, 46, 115, 113, 108>>, Version |-> 2,
          Checksum |-> AllBits \ CrcWrite(AllBits, <<65>>)]

Entry2b == [name |-> Name2b, regular |-> TRUE, content |-> <<65>>]

InitMigrated ==
    /\ disk = {Entry2b}
    /\ tableExists = TRUE
    /\ ledger = <<Row2b>>
    /\ executed = {Name2b}
    /\ procs = {1}
    /\ ds = [p \in AllProcs |-> IF p = 1 THEN [tx |-> "finished", successful |-> TRUE]
                                ELSE NewDataSource]
    /\ tx = [p \in AllProcs |-> NoTx]
    /\ pc = [p \in AllProcs |-> "idle"]
    /\ run = [p \in AllProcs |-> NoRun]
    /\ hist = [p \in AllProcs |-> NoHist]
    /\ runsDone = 0
    /\ prevOk = TRUE
    /\ fn = NoCall

\* the database is new, or it was migrated before
InitLater == Init \/ InitMigrated

\* a second changeset of version 1
Name01e == <<48, 49, 95, 95, 101, 46, 115, 113, 108>>    \* "01__e.sql"

\* the files written or removed between the later runs
LaterEntries ==
    {e \in DiskEntries : e.name \in {Name1a, Name2b, Name0z} /\ e.content = <<65>>}
    \cup {[name |-> Name01e, regular |-> TRUE, content |-> <<65>>]}

EditDiskLater ==
    /\ Idle
    /\ runsDone < MaxRuns
    /\ \E e \in LaterEntries :
          disk' = IF e \in disk THEN disk \ {e} ELSE disk \cup {e}
    /\ prevOk' = FALSE
    /\ UNCHANGED <<tableExists, ledger, executed, procs, ds, tx, pc, run, hist, runsDone, fn>>

NextLater ==
    \/ EditDiskLater
    \/ \E p \in procs : StartRun(p)
    \/ \E p \in procs : GetMigrationInfo(p)
    \/ \E p \in procs : ListEntries(p)
    \/ \E p \in procs : BeginTransaction(p)
    \/ \E p \in procs : ProcessEntry(p)
    \/ \E p \in procs : SetTransactionSuccessful(p)
    \/ \E p \in procs : EndTransaction(p)
    \/ \E p \in procs : Return(p)

SpecLater == InitLater /\ [][NextLater]_vars

\* the statements of a call of Migrate outside its loop
MigrateStep(p) ==
    \/ GetMigrationInfo(p)
    \/ ListEntries(p)
    \/ BeginTransaction(p)
    \/ SetTransactionSuccessful(p)
    \/ EndTransaction(p)

\* the call is in its loop with an entry left: ProcessEntry(p) is enabled
InLoop(p) == p \in procs /\ pc[p] = "loop" /\ run[p].idx <= Len(run[p].entries)

\* a call of Migrate that has started keeps executing: weak fairness of its
\* statements; for the body of the loop it is written with InLoop(p) as the
\* enabling condition of ProcessEntry(p)
SpecLaterFair ==
    /\ SpecLater
    /\ \A p \in AllProcs :
          /\ WF_vars(MigrateStep(p))
          /\ []<>(~InLoop(p)) \/ []<><<ProcessEntry(p)>>_vars

\* ------------------------------------------------------ ApplyMigration alone
\* the Read results for the pieces ch when the read after them fails
FailingAfter(ch) ==
    [i \in 1..Len(ch) |-> [data |-> ch[i], err |-> "nil"]]
    \o << [data |-> <<>>, err |-> "EIO"] >>

\* a changeset file and what it answers to Read, the outcome of Open, of
\* tx.Exec(query) and of the insert of logMigration
ApplyInputs ==
    [file : HashInputs \cup
            UNION {{[content |-> c, reads |-> FailingAfter(ch)] : ch \in Chunks(c)} :
                      c \in HashContents},
     opened : BOOLEAN, execOk : BOOLEAN, logOk : BOOLEAN]

InitApply ==
    /\ InitCommon
    /\ procs = {}
    /\ fn \in {[op |-> "none", in |-> i, out |-> <<>>] : i \in ApplyInputs}

\* the migrator hands the changeset "1__a.sql" to the data source
CallApplyMigration ==
    /\ fn.op = "none"
    /\ fn' = [op |-> "ApplyMigration", in |-> fn.in,
              out |-> ApplyMigration([File |-> Name1a, Name |-> <<97, 46, 115, 113, 108>>,
                                      Version |-> 1,
                                      Checksum |-> HashFile(TRUE, fn.in.file.reads).sum],
                                     fn.in.opened, fn.in.file.reads,
                                     fn.in.execOk, fn.in.logOk)]
    /\ UNCHANGED <<disk, tableExists, ledger, executed, procs, ds, tx, pc, run, hist,
                   runsDone, prevOk>>

NextApply == CallApplyMigration

SpecApply == InitApply /\ [][NextApply]_vars

\* ------------------------------------------ two callers on the same database
\* two processes call Migrate on the same database and the same changeset
\* directory, each with a data source of its own; each calls before a run
\* has returned, and their steps interleave
InitTwo == InitCommon /\ procs = {1, 2} /\ fn = NoCall

\* two changesets that carry the same version
TwoEntries ==
    {e \in DiskEntries : e.name \in {Name2b, Name02c} /\ e.content = <<65>>}

\* one of them is written or removed while no run is in progress
EditDiskTwo ==
    /\ Idle
    /\ runsDone < MaxRuns
    /\ \E e \in TwoEntries :
          disk' = IF e \in disk THEN disk \ {e} ELSE disk \cup {e}
    /\ prevOk' = FALSE
    /\ UNCHANGED <<tableExists, ledger, executed, procs, ds, tx, pc, run, hist, runsDone, fn>>

NextTwo ==
    \/ EditDiskTwo
    \/ \E p \in procs : runsDone = 0 /\ StartRun(p)
    \/ \E p \in procs : GetMigrationInfo(p)
    \/ \E p \in procs : ListEntries(p)
    \/ \E p \in procs : BeginTransaction(p)
    \/ \E p \in procs : ProcessEntry(p)
    \/ \E p \in procs : SetTransactionSuccessful(p)
    \/ \E p \in procs : EndTransaction(p)
    \/ \E p \in procs : Return(p)

SpecTwo == InitTwo /\ [][NextTwo]_vars

\* ------------------------------------------------------ notions for claims
RowFiles(rows) == [i \in 1..Len(rows) |-> rows[i].File]

\* the rows the ledger gained since the run of p read it
NewRows(p) == SubSeq(ledger, Len(hist[p].pre) + 1, Len(ledger))
LedgerUnchanged(p) == ledger = hist[p].pre
LedgerKeepsOld(p) ==
    /\ Len(ledger) >= Len(hist[p].pre)
    /\ SubSeq(ledger, 1, Len(hist[p].pre)) = hist[p].pre

\* the highest Version among rows, 0 without rows: what currentVersion is
\* for every order SelectRows may return
MaxVersion(rows) ==
    IF rows = <<>> THEN 0
    ELSE CHOOSE v \in {rows[i].Version : i \in 1..Len(rows)} :
            \A i \in 1..Len(rows) : rows[i].Version <= v

\* the checksum of the bytes a directory entry holds now
FreshChecksum(e) == HashFile(TRUE, StdReads(e.content)).sum

\* the filter on a regular file of each name of the catalogue, computed once
FilterTable == [n \in FileNames \cup DirNames |-> IsCandidate([name |-> n, regular |-> TRUE])]
PassesFilter(e) ==
    IF e.name \in DOMAIN FilterTable THEN e.regular /\ FilterTable[e.name]
    ELSE IsCandidate([name |-> e.name, regular |-> e.regular])

\* the entries of the directory that pass the filter, and those that parse
Candidates == {e \in disk : PassesFilter(e)}

\* ParseMigration on a name, the names of the catalogue parsed once
ParseTable == [n \in FileNames \cup DirNames |-> ParseMigration(n)]
ParseOf(name) == IF name \in DOMAIN ParseTable THEN ParseTable[name] ELSE ParseMigration(name)

ParsedCandidates == {e \in Candidates : ParseOf(e.name).err = "nil"}
VersionOf(name) == ParseOf(name).Version

Matched(e, rows) == \E i \in 1..Len(rows) : EqualFold(e.name, rows[i].File)

\* position of the entry called name in the sorted listing of the run, 0
\* when the run has no listing
PosIn(entries, name) ==
    IF \E i \in 1..Len(entries) : entries[i].name = name
    THEN CHOOSE i \in 1..Len(entries) : entries[i].name = name
    ELSE 0

Finished(p) == p \in procs /\ pc[p] = "done"

\* every candidate has a well-formed name and the versions are distinct
\* positive integers
DistinctPositive(cands) ==
    /\ \A e \in cands : ParseMigration(e.name).err = "nil" /\ VersionOf(e.name) > 0
    /\ \A e, f \in cands : VersionOf(e.name) = VersionOf(f.name) => e = f

\* s lists each candidate once, in ascending version order
AscendingOnce(s, cands) ==
    /\ SeqSet(s) = {e.name : e \in cands}
    /\ \A i, j \in 1..Len(s) : i < j => VersionOf(s[i]) < VersionOf(s[j])

\* ------------------------------------------------------------------ claims

\* C1: each run is all-or-nothing: when Migrate has returned, either it
\* returned nil and the ledger is the pre-run rows plus one new row per
\* candidate it classified as new, or it returned an error and the ledger is
\* exactly the pre-run rows (stated for the runs whose Commit, when issued,
\* took effect).
C1_AllOrNothing ==
    \A p \in AllProcs : (Finished(p) /\ "commit" \notin hist[p].faults) =>
        \/ /\ run[p].ret = "nil"
           /\ LedgerKeepsOld(p)
           /\ RowFiles(NewRows(p)) = hist[p].applyCalls
        \/ /\ run[p].ret # "nil"
           /\ LedgerUnchanged(p)

\* C2: idempotence: a run on a fresh data source that follows a committed
\* run, with the directory unchanged, applies nothing, returns nil and leaves
\* the ledger as it was.
C2_Idempotent ==
    \A p \in AllProcs :
        (Finished(p) /\ hist[p].afterOk /\ hist[p].fresh /\ hist[p].faults = {}) =>
            /\ hist[p].applyCalls = <<>>
            /\ run[p].ret = "nil"
            /\ LedgerUnchanged(p)

\* C3: checksum drift aborts the run: when a candidate's name equals,
\* ignoring case, the File of a ledger row whose Checksum differs from the
\* candidate's fresh checksum, Migrate returns an error, ApplyMigration is
\* not invoked for that candidate nor for a later one, the transaction is
\* never marked successful and the ledger gains no rows.
C3_DriftAborts ==
    \A p \in AllProcs : Finished(p) =>
        \A e \in ParsedCandidates :
            (\E i \in 1..Len(hist[p].pre) :
                /\ EqualFold(e.name, hist[p].pre[i].File)
                /\ FreshChecksum(e) # hist[p].pre[i].Checksum) =>
                /\ run[p].ret # "nil"
                /\ hist[p].outcome \notin {"commit", "commitFailed"}
                /\ LedgerUnchanged(p)
                /\ \A f \in SeqSet(hist[p].applyCalls) :
                      PosIn(run[p].entries, f) < PosIn(run[p].entries, e.name)

\* C4: out-of-order policy: for a candidate that matches no ledger row and
\* whose Version is below currentVersion, a run with OutOfOrder=false returns
\* an error and commits nothing; a run with OutOfOrder=true invokes
\* ApplyMigration on it once the loop has passed it, and when the run returns
\* nil without a failure of the environment its row is in the ledger.
C4_OutOfOrderPolicy ==
    \A p \in AllProcs : Finished(p) =>
        \A e \in ParsedCandidates :
            (~Matched(e, hist[p].pre) /\ VersionOf(e.name) < MaxVersion(hist[p].pre)) =>
                /\ ~run[p].OutOfOrder =>
                      /\ run[p].ret # "nil"
                      /\ LedgerUnchanged(p)
                      /\ e.name \notin SeqSet(hist[p].applyCalls)
                /\ run[p].OutOfOrder =>
                      /\ (PosIn(run[p].entries, e.name) \in 1..(run[p].idx - 1))
                            => e.name \in SeqSet(hist[p].applyCalls)
                      /\ (run[p].ret = "nil" /\ hist[p].faults = {})
                            => /\ e.name \in SeqSet(hist[p].applyCalls)
                               /\ e.name \in SeqSet(RowFiles(NewRows(p)))

\* a run with OutOfOrder=true has applied and committed a candidate below
\* currentVersion
C4_Witness ==
    \E p \in AllProcs : Finished(p) /\ run[p].OutOfOrder /\ run[p].ret = "nil" /\
        \E e \in ParsedCandidates :
            /\ ~Matched(e, hist[p].pre)
            /\ VersionOf(e.name) < MaxVersion(hist[p].pre)
            /\ e.name \in SeqSet(RowFiles(NewRows(p)))

\* C5: fresh database: with an empty ledger, a directory of changeset files
\* with distinct positive versions, a new data source and no failure of the
\* environment, the run invokes ApplyMigration once per file in ascending
\* version order, returns nil and commits, and the next GetMigrationInfo
\* reports the highest applied version, for both values of OutOfOrder.
C5_FreshDatabase ==
    \A p \in AllProcs :
        (/\ Finished(p)
         /\ hist[p].pre = <<>>
         /\ hist[p].fresh
         /\ hist[p].faults = {}
         /\ Candidates = disk
         /\ DistinctPositive(disk)) =>
            /\ run[p].ret = "nil"
            /\ hist[p].outcome = "commit"
            /\ Len(hist[p].applyCalls) = Cardinality(disk)
            /\ AscendingOnce(hist[p].applyCalls, disk)
            /\ RowFiles(ledger) = hist[p].applyCalls
            /\ \A rows \in SelectRows(ledger) :
                  \A e \in disk : VersionOf(e.name) <= LastVersion(rows)

\* a fresh-database run has applied two files whose name order differs from
\* their version order
C5_Witness ==
    \E p \in AllProcs :
        /\ Finished(p) /\ hist[p].pre = <<>> /\ hist[p].faults = {}
        /\ Candidates = disk /\ DistinctPositive(disk)
        /\ hist[p].applyCalls = <<Name1a, Name02c>>
        /\ run[p].ret = "nil"

\* C6: version conflict: a candidate that matches no ledger row and whose
\* Version equals currentVersion makes Migrate return an error for both
\* values of OutOfOrder; it is not applied and the ledger gains nothing.
C6_VersionConflict ==
    \A p \in AllProcs : Finished(p) =>
        \A e \in ParsedCandidates :
            (~Matched(e, hist[p].pre) /\ VersionOf(e.name) = MaxVersion(hist[p].pre)) =>
                /\ run[p].ret # "nil"
                /\ e.name \notin SeqSet(hist[p].applyCalls)
                /\ LedgerUnchanged(p)

\* a run on a non-empty ledger has ended on the version conflict, after it
\* had applied a lower candidate
C6_Witness ==
    \E p \in AllProcs :
        /\ Finished(p) /\ run[p].ret = "conflict"
        /\ hist[p].pre # <<>>
        /\ hist[p].applyCalls # <<>>

C8_SkippedEntriesIgnored ==
    \A p \in AllProcs :
        (/\ Finished(p)
         /\ hist[p].pre = <<>>
         /\ hist[p].fresh
         /\ hist[p].faults = {}
         /\ DistinctPositive(Candidates)) =>
            /\ run[p].ret = "nil"
            /\ AscendingOnce(hist[p].applyCalls, Candidates)

\* C9: a failure inside ApplyMigration is an error of Migrate: when Migrate
\* returns nil, every candidate it handed to ApplyMigration was executed and
\* recorded.
C9_ApplyFailureIsError ==
    \A p \in AllProcs : (Finished(p) /\ run[p].ret = "nil") => hist[p].unhandled = {}

\* C10: a ledger row is written only after the SQL text of its changeset
\* executed in the transaction: every row of an open transaction and every
\* committed row belongs to an executed changeset, and a changeset whose
\* execution failed in a run gets no row from that run.
C10_RowOnlyAfterExec ==
    /\ \A i \in 1..Len(ledger) : ledger[i].File \in executed
    /\ \A p \in AllProcs :
          /\ SeqSet(RowFiles(tx[p].rows)) \subseteq SeqSet(tx[p].exec)
          /\ SeqSet(RowFiles(tx[p].rows)) \cap hist[p].failedExec = {}
          /\ Finished(p) => SeqSet(RowFiles(NewRows(p))) \cap hist[p].failedExec = {}

\* a transaction holds a row of an executed changeset while the execution
\* of another changeset has failed
C10_Witness ==
    \E p \in AllProcs : tx[p].rows # <<>> /\ hist[p].failedExec # {}

\* C11: corrupted-ledger guard: when GetMigrationInfo has returned a
\* non-empty Migrations list together with Version 0, Migrate returns an
\* error at once: the directory is not listed, BeginTransaction and
\* ApplyMigration are not called, nothing is committed and the ledger stays
\* as the run found it.
C11_CorruptedLedgerGuard ==
    \A p \in AllProcs :
        (/\ p \in procs
         /\ Len(run[p].info.Migrations) > 0
         /\ run[p].info.Version = 0) =>
            /\ pc[p] = "done"
            /\ run[p].ret = "invariant"
            /\ ~hist[p].listed
            /\ ~hist[p].began
            /\ hist[p].applyCalls = <<>>
            /\ hist[p].endCalls = 0
            /\ hist[p].outcome = "none"
            /\ LedgerUnchanged(p)

\* a run has returned on the guard, with changeset files in the directory
\* that the ledger does not hold
C11_Witness ==
    \E p \in AllProcs :
        /\ Finished(p) /\ run[p].ret = "invariant"
        /\ Len(run[p].info.Migrations) > 0 /\ run[p].info.Version = 0
        /\ \E e \in ParsedCandidates : ~Matched(e, ledger)

\* the run of p ended with an error at the entry called name
StoppedAt(p, name) ==
    /\ hist[p].began
    /\ run[p].ret # "nil"
    /\ run[p].idx = PosIn(run[p].entries, name)

\* C12: a candidate whose name equals, ignoring case, the File of a ledger
\* row and whose checksum equals the Checksum of that row causes no action:
\* ApplyMigration is not invoked for it and the run does not end at it,
\* whatever its Version and whatever OutOfOrder is (stated for the runs in
\* which reading the files for the checksum did not fail).
C12_MatchedNoAction ==
    \A p \in AllProcs :
        (Finished(p) /\ hist[p].faults \cap {"hashOpen", "hashRead"} = {}) =>
            \A e \in ParsedCandidates :
                (\E i \in 1..Len(hist[p].pre) :
                    /\ EqualFold(e.name, hist[p].pre[i].File)
                    /\ FreshChecksum(e) = hist[p].pre[i].Checksum) =>
                    /\ e.name \notin SeqSet(hist[p].applyCalls)
                    /\ ~StoppedAt(p, e.name)

\* the longest prefix of s made of the digits 0..9, and what follows it
RECURSIVE DigitPrefixLen(_)
DigitPrefixLen(s) ==
    IF s # <<>> /\ Head(s) \in 48..57 THEN 1 + DigitPrefixLen(Tail(s)) ELSE 0

DigitPrefix(s) == SubSeq(s, 1, DigitPrefixLen(s))
AfterDigits(s) == SubSeq(s, DigitPrefixLen(s) + 1, Len(s))

\* the number of underscores s starts with
RECURSIVE LeadingUnderscores(_)
LeadingUnderscores(s) ==
    IF s # <<>> /\ Head(s) = 95 THEN 1 + LeadingUnderscores(Tail(s)) ELSE 0

\* the base-10 value of a digit string
RECURSIVE DecimalValue(_)
DecimalValue(s) ==
    IF s = <<>> THEN 0
    ELSE 10 * DecimalValue(SubSeq(s, 1, Len(s) - 1)) + (s[Len(s)] - 48)

\* one or more digits, exactly two underscores, a non-empty name
WellFormed(s) ==
    /\ DigitPrefixLen(s) >= 1
    /\ LeadingUnderscores(AfterDigits(s)) = 2
    /\ Len(AfterDigits(s)) > 2

\* the substring after the first two underscores of a well-formed name
NamePart(s) == SubSeq(s, DigitPrefixLen(s) + 3, Len(s))

\* s with every byte that belongs to no UTF-8 encoding replaced by the
\* encoding of U+FFFD (the bytes of the alphabet above 127 are such bytes)
RECURSIVE ReplaceInvalid(_)
ReplaceInvalid(s) ==
    IF s = <<>> THEN <<>>
    ELSE (IF Head(s) < 128 THEN <<Head(s)>> ELSE <<239, 191, 189>>)
         \o ReplaceInvalid(Tail(s))

Parsed == fn.op = "ParseMigration"

\* C13 as stated: for every file name made of one or more decimal digits,
\* exactly two underscores and a non-empty name, ParseMigration returns no
\* error, Version is the base-10 value of the digits, Name is the substring
\* after the first two underscores and File is the input.
C13_WellFormedParses ==
    (Parsed /\ WellFormed(fn.in)) =>
        /\ fn.out.err = "nil"
        /\ fn.out.Version = DecimalValue(DigitPrefix(fn.in))
        /\ fn.out.Name = NamePart(fn.in)
        /\ fn.out.File = fn.in

\* C13 amended: for every such file name whose digits have a value within
\* the signed integer range, ParseMigration returns no error, Version is
\* that value (leading zeros ignored), File is the input, and Name is the
\* substring after the first two underscores in which every byte that is
\* not valid UTF-8 is replaced by U+FFFD (so Name is that substring itself
\* when the file name is valid UTF-8).
C13_WellFormedInRange ==
    (Parsed /\ WellFormed(fn.in) /\ DecimalValue(DigitPrefix(fn.in)) <= MaxInt) =>
        /\ fn.out.err = "nil"
        /\ fn.out.Version = DecimalValue(DigitPrefix(fn.in))
        /\ fn.out.Name = ReplaceInvalid(NamePart(fn.in))
        /\ fn.out.File = fn.in

\* "0000001__baseline.sql" has been parsed to Version 1, Name "baseline.sql"
C13_Witness ==
    /\ Parsed /\ fn.in = NameBaseline
    /\ fn.out.err = "nil" /\ fn.out.Version = 1
    /\ fn.out.Name = <<98, 97, 115, 101, 108, 105, 110, 101, 46, 115, 113, 108>>

\* the name is malformed in one of these ways: no digit at the start; the
\* input ends in the digits; fewer than two underscores follow the digits
\* (another character, or the end of the input, comes first); a third
\* underscore follows; the input ends after the two underscores; the value
\* of the digits is outside the signed integer range
Malformed(s) ==
    \/ DigitPrefixLen(s) = 0
    \/ AfterDigits(s) = <<>>
    \/ LeadingUnderscores(AfterDigits(s)) < 2
    \/ LeadingUnderscores(AfterDigits(s)) > 2
    \/ Len(AfterDigits(s)) = 2
    \/ DecimalValue(DigitPrefix(s)) > MaxInt

\* C14: ParseMigration answers every malformed name with an error and
\* never with a Migration: an empty digit prefix, fewer than two underscores
\* after the digits, a third consecutive underscore, the end of the input in
\* the digits or in the separator, and digits that overflow the integer.
C14_MalformedRejected ==
    (Parsed /\ Malformed(fn.in)) => fn.out.err # "nil"

\* the parser has rejected "12___x.sql" at its third underscore
C14_Witness ==
    Parsed /\ fn.in = Name12u3 /\ fn.out.err = "parserError"

\* the parser has rejected a name whose digits overflow the integer
C14_WitnessOverflow ==
    Parsed /\ WellFormed(fn.in) /\ fn.out.err = "parseInt"

Sorted == fn.op = "SortDirectoryEntries"

\* the names of the listing are accepted by the parser and carry distinct
\* versions
DistinctWellFormed(q) ==
    /\ \A i \in 1..Len(q) : ParseMigration(q[i].name).err = "nil"
    /\ \A i, j \in 1..Len(q) : VersionOf(q[i].name) = VersionOf(q[j].name) => i = j

\* C15: SortDirectoryEntries orders the entries ascending by version
\* whatever the order of the listing: for every listing of entries with
\* well-formed names and distinct versions it returns no error, the versions
\* of the output are strictly increasing and the output is a permutation of
\* the input.
C15_SortsAscending ==
    (Sorted /\ DistinctWellFormed(fn.in)) =>
        /\ fn.out.err = "nil"
        /\ \A i, j \in 1..Len(fn.out.entries) :
              i < j => VersionOf(fn.out.entries[i].name) < VersionOf(fn.out.entries[j].name)
        /\ Len(fn.out.entries) = Len(fn.in)
        /\ SeqSet(fn.out.entries) = SeqSet(fn.in)

Hashed == fn.op = "HashFile"

\* the CRC32 of the bytes c, each fed once and in order
Crc32(c) == AllBits \ CrcWrite(AllBits, c)

\* C16: HashFile feeds every byte of the file, in order and once, into the
\* CRC32 before it returns, for every sequence of Read results the file may
\* give, a last Read that returns bytes together with io.EOF included: the
\* checksum is the CRC32 of the whole content, so equal contents get equal
\* checksums however they are read.
C16_HashesAllBytes ==
    Hashed => /\ fn.out.err = "nil"
              /\ fn.out.sum = Crc32(fn.in.content)

\* C17: the ledger only grows and its rows never change: while a run is in
\* progress and after it, successful or failed, the rows the run found are
\* the first rows of the ledger, unchanged and in their order.
C17_LedgerOnlyGrows ==
    \A p \in AllProcs : (p \in procs /\ pc[p] # "idle") => LedgerKeepsOld(p)

\* a run that found rows in the ledger has committed further rows
C17_Witness ==
    \E p \in AllProcs :
        /\ Finished(p) /\ hist[p].pre # <<>>
        /\ hist[p].outcome = "commit" /\ Len(ledger) > Len(hist[p].pre)

Constructed == fn.op = "New"

\* a nil Config, a Config without FileSystem, a Config whose Basepath is
\* empty or holds only white space
InvalidConfig(cfg) ==
    \/ cfg.isNil
    \/ cfg.FileSystem = "nil"
    \/ \A i \in 1..Len(cfg.Basepath) : cfg.Basepath[i] \in {9, 32}

\* C18: every constructor validates the configuration before any I/O: for
\* an invalid Config it returns an error, it does not panic, and no
\* database connection is opened or pinged.
C18_ConfigValidatedFirst ==
    (Constructed /\ InvalidConfig(fn.in.cfg)) =>
        /\ fn.out.res = "error"
        /\ ~fn.out.opened
        /\ ~fn.out.pinged

\* C19: within one run the ApplyMigration calls are made one after another
\* in non-decreasing order of the candidates' versions: of two candidates
\* applied in the same run, the one applied earlier has the smaller or the
\* same version.
C19_AppliedInVersionOrder ==
    \A p \in AllProcs :
        \A i, j \in 1..Len(hist[p].applyCalls) :
            i < j => VersionOf(hist[p].applyCalls[i]) <= VersionOf(hist[p].applyCalls[j])

\* C20: EndTransaction is safe to call when BeginTransaction never
\* succeeded: it returns without a panic and the database is as before.
C20_EndWithoutBeginIsSafe ==
    (/\ fn.op = "EndTransaction"
     /\ <<"BeginTransaction", "nil">> \notin SeqSet(fn.in)) =>
        /\ fn.out = "returned"
        /\ ledger = <<>>
        /\ executed = {}

\* the run of p has the result of GetMigrationInfo
GotInfo(p) == p \in procs /\ pc[p] \notin {"idle", "getInfo"} /\ run[p].ret # "ledger"

\* the Version of the row applied last, 0 without rows
LastApplied(rows) == IF rows = <<>> THEN 0 ELSE rows[Len(rows)].Version

\* the state InitMigrated describes: the first run has applied "2__b.sql",
\* committed and returned
MigratedOnce ==
    /\ disk = {Entry2b} /\ ledger = <<Row2b>> /\ executed = {Name2b} /\ tableExists
    /\ Idle /\ prevOk /\ ds[1] = [tx |-> "finished", successful |-> TRUE]
    /\ run[1] = NoRun /\ hist[1] = NoHist

\* C21 as stated: the Version GetMigrationInfo returns is the Version of the
\* most recently applied row, and it is 0 exactly when the ledger is empty or
\* newly created, also after a run with OutOfOrder=true that appended a row
\* with a lower version after a row with a higher one.
C21_VersionIsLastApplied ==
    \A p \in AllProcs : GotInfo(p) =>
        /\ run[p].info.Version = LastApplied(hist[p].pre)
        /\ (run[p].info.Version = 0) <=> (hist[p].pre = <<>>)

\* C21 amended: the Version GetMigrationInfo returns is the highest Version
\* among the rows of the ledger (the last row in ascending Version order,
\* not in order of application), and it is 0 exactly when the ledger is
\* empty or newly created.
C21_VersionIsHighest ==
    \A p \in AllProcs : GotInfo(p) =>
        /\ run[p].info.Version = MaxVersion(hist[p].pre)
        /\ (run[p].info.Version = 0) <=> (hist[p].pre = <<>>)

\* a run has read Version 2 from a ledger whose most recently applied row,
\* appended by a run with OutOfOrder=true, has Version 1
C21_Witness ==
    \E p \in AllProcs :
        /\ GotInfo(p)
        /\ Len(hist[p].pre) = 2
        /\ hist[p].pre[1].Version = 2 /\ hist[p].pre[2].Version = 1
        /\ run[p].info.Version = 2

\* the zero-based index of the character that makes s malformed: the first
\* character when s starts with no digit, the third underscore when three
\* follow the digits, else the character after the digits and their
\* underscores, which is the length of s when s ends there
OffendingIndex(s) ==
    LET d == DigitPrefixLen(s)
        u == LeadingUnderscores(AfterDigits(s))
    IN  IF d = 0 THEN 0 ELSE IF u >= 3 THEN d + 2 ELSE d + u

\* C22: when ParseMigration fails on a malformed name, the position it
\* reports is the zero-based index of the offending character, or the length
\* of the input when the input ends too early (stated for the names whose
\* digits fit the integer); for "12_x.sql" it is 3.
C22_PositionIsIndex ==
    (Parsed /\ fn.out.err # "nil" /\ DecimalValue(DigitPrefix(fn.in)) <= MaxInt) =>
        fn.out.pos = OffendingIndex(fn.in)

Applied == fn.op = "ApplyMigration"

\* C23: the Success field of a Migration is true only after both the SQL
\* execution and the insert of the ledger row have succeeded: whenever
\* ApplyMigration returns an error, an error from logging the row included,
\* Success is false.
C23_SuccessOnlyAfterLogging ==
    Applied =>
        /\ fn.out.Success => (fn.out.executed /\ fn.out.logged)
        /\ fn.out.err # "nil" => ~fn.out.Success

\* the run of p has called SortDirectoryEntries on the listing of the
\* directory
SortCalled(p) ==
    /\ p \in procs
    /\ \/ pc[p] \in {"begin", "loop", "end"}
       \/ pc[p] = "done" /\ run[p].ret \notin {"ledger", "invariant", "readDir"}

\* ExtractVersion fails on the name, the names of the catalogue tried once
ExtractTable == [n \in FileNames \cup DirNames |-> ExtractVersion(n).ok]
ExtractFails(name) ==
    IF name \in DOMAIN ExtractTable THEN ~ExtractTable[name] ELSE ~ExtractVersion(name).ok

\* the run of p has ended on the error of the sort, before BeginTransaction
AbortedOnSort(p) ==
    /\ pc[p] = "done"
    /\ run[p].ret = "sort"
    /\ ~hist[p].began
    /\ hist[p].applyCalls = <<>>
    /\ hist[p].endCalls = 0

\* C24 as stated: if version extraction fails for an entry of the listing,
\* SortDirectoryEntries returns that error, for listings of every size, a
\* single entry included, and Migrate aborts before BeginTransaction.
C24_SortFailsAlways ==
    \A p \in AllProcs :
        (SortCalled(p) /\ \E e \in disk : ExtractFails(e.name)) => AbortedOnSort(p)

\* C24 amended: if version extraction fails for an entry of a listing of two
\* or more entries, SortDirectoryEntries returns the error and Migrate
\* aborts before BeginTransaction; a listing of one entry or none is never
\* compared, so the sort returns no error whatever the name is.
C24_SortFailsFromTwo ==
    \A p \in AllProcs : SortCalled(p) =>
        IF Cardinality(disk) >= 2 /\ \E e \in disk : ExtractFails(e.name)
        THEN AbortedOnSort(p)
        ELSE run[p].ret # "sort"

\* a run has ended on the error of the sort, on a directory of two entries
\* of which one has no version
C24_Witness ==
    \E p \in AllProcs :
        /\ SortCalled(p) /\ AbortedOnSort(p)
        /\ Cardinality(disk) = 2
        /\ \E e \in disk : e.name = NameTxt

\* the runs of p and q started from the same conditions: the same policy,
\* the same ledger as read, data sources in the same state, and nothing
\* failed in the environment of either
SameConditions(p, q) ==
    /\ Finished(p) /\ Finished(q)
    /\ run[p].OutOfOrder = run[q].OutOfOrder
    /\ run[p].info = run[q].info
    /\ hist[p].fresh = hist[q].fresh
    /\ hist[p].faults = {} /\ hist[q].faults = {}

\* C25: what a run processes and applies does not depend on the order in
\* which the file system enumerates the directory: two runs on the same
\* directory, the same ledger and the same OutOfOrder, whatever the order of
\* enumeration each of them meets, list the entries in the same order, call
\* ApplyMigration on the same candidates in the same order and return the
\* same result, also when two entries carry the same version.
C25_EnumerationIndependent ==
    \A p, q \in AllProcs : SameConditions(p, q) =>
        /\ run[p].entries = run[q].entries
        /\ hist[p].applyCalls = hist[q].applyCalls
        /\ run[p].ret = run[q].ret

\* two runs have each applied the two changesets of version 2, in the same
\* order
C25_Witness ==
    /\ SameConditions(1, 2)
    /\ hist[1].applyCalls = <<Name02c, Name2b>>
    /\ hist[2].applyCalls = <<Name02c, Name2b>>

\* the entries at i and j of the listing q have equal extracted versions
EqualVersions(q, i, j) ==
    /\ ExtractVersion(q[i].name).ok
    /\ ExtractVersion(q[j].name).ok
    /\ ExtractVersion(q[i].name).val = ExtractVersion(q[j].name).val

\* C26: SortDirectoryEntries is stable: two entries whose extracted versions
\* are equal are in the output in the relative order they had in the input.
C26_SortIsStable ==
    Sorted =>
        \A i, j \in 1..Len(fn.in) :
            (i < j /\ EqualVersions(fn.in, i, j)) =>
                PosIn(fn.out.entries, fn.in[i].name) < PosIn(fn.out.entries, fn.in[j].name)

\* the listing "9__a", "01__a", "1__a" has been sorted to "01__a", "1__a",
\* "9__a"
C26_Witness ==
    /\ Sorted
    /\ fn.in = <<[name |-> Sort9, regular |-> TRUE], [name |-> Sort01, regular |-> TRUE],
                 [name |-> Sort1, regular |-> TRUE]>>
    /\ fn.out.err = "nil"
    /\ fn.out.entries = <<fn.in[2], fn.in[3], fn.in[1]>>

\* e and f are two candidates of one version that match no row of the
\* ledger the run of p found, and the version is above currentVersion, or
\* below it in a run with OutOfOrder=true
SameVersionPair(p, e, f) ==
    /\ e # f
    /\ VersionOf(e.name) = VersionOf(f.name)
    /\ ~Matched(e, hist[p].pre) /\ ~Matched(f, hist[p].pre)
    /\ \/ VersionOf(e.name) > MaxVersion(hist[p].pre)
       \/ VersionOf(e.name) < MaxVersion(hist[p].pre) /\ run[p].OutOfOrder

\* two rows of one version are among rows
SharedVersion(rows) ==
    \E i, j \in 1..Len(rows) : i # j /\ rows[i].Version = rows[j].Version

\* C27: the version-collision check compares a candidate only with the
\* currentVersion read at the start of the run: of two unmatched candidates
\* that carry one version, above currentVersion or below it with
\* OutOfOrder=true, neither makes the run end on a version conflict, both are
\* applied once the loop has passed them, and when the run returns nil and
\* commits, both are recorded and the ledger holds two rows of one version.
C27_CollisionOnlyWithLedger ==
    \A p \in AllProcs : (Finished(p) /\ hist[p].faults = {}) =>
        \A e, f \in ParsedCandidates : SameVersionPair(p, e, f) =>
            /\ run[p].ret # "conflict"
            /\ run[p].info.Version = MaxVersion(hist[p].pre)
            /\ (PosIn(run[p].entries, e.name) \in 1..(run[p].idx - 1))
                  => e.name \in SeqSet(hist[p].applyCalls)
            /\ run[p].ret = "nil" =>
                  /\ {e.name, f.name} \subseteq SeqSet(hist[p].applyCalls)
                  /\ {e.name, f.name} \subseteq SeqSet(RowFiles(NewRows(p)))
                  /\ SharedVersion(ledger)

\* a run with OutOfOrder=true on a ledger at version 2 has applied and
\* committed two changesets of version 1
C27_Witness ==
    \E p \in AllProcs :
        /\ Finished(p) /\ run[p].ret = "nil" /\ hist[p].outcome = "commit"
        /\ run[p].OutOfOrder /\ run[p].info.Version = 2
        /\ SeqSet(RowFiles(NewRows(p))) = {Name1a, Name01e}
        /\ SharedVersion(NewRows(p))

\* C28: File is a unique key of the ledger: after any sequence of runs no
\* two rows of the ledger have File values that are equal ignoring case,
\* also when the directory holds two files whose names differ only in the
\* case of their letters.
C28_FileIsUniqueKey ==
    \A i, j \in 1..Len(ledger) :
        i # j => ~EqualFold(ledger[i].File, ledger[j].File)

\* the loop of the run of p has gone past the entry called name
Passed(p, name) == PosIn(run[p].entries, name) \in 1..(run[p].idx - 1)

\* the run of p returned nil and its Commit took effect
Committed(p) == run[p].ret = "nil" /\ hist[p].outcome = "commit"

\* the positions of the rows of the ledger whose File is name
RowsOf(name) == {i \in 1..Len(ledger) : ledger[i].File = name}

\* C29: nothing excludes two runs from one another: when two runs on the
\* same database and directory have each read a ledger without the row of a
\* changeset, each of them, once its loop has passed the changeset, has
\* called ApplyMigration on it, and when both runs commit the ledger holds
\* two rows of that changeset.
C29_NoMutualExclusion ==
    \A p, q \in AllProcs :
        (/\ p # q /\ Finished(p) /\ Finished(q)
         /\ hist[p].faults = {} /\ hist[q].faults = {}) =>
            \A e \in ParsedCandidates :
                (/\ ~Matched(e, run[p].info.Migrations)
                 /\ ~Matched(e, run[q].info.Migrations)
                 /\ Passed(p, e.name) /\ Passed(q, e.name)) =>
                    /\ e.name \in SeqSet(hist[p].applyCalls)
                    /\ e.name \in SeqSet(hist[q].applyCalls)
                    /\ (Committed(p) /\ Committed(q)) => Cardinality(RowsOf(e.name)) = 2

\* two runs that both read the empty ledger have both executed "2__b.sql"
\* and committed: the ledger holds two rows of it
C29_Witness ==
    /\ Finished(1) /\ Finished(2)
    /\ run[1].info.Migrations = <<>> /\ run[2].info.Migrations = <<>>
    /\ hist[1].applyCalls = <<Name2b>> /\ hist[2].applyCalls = <<Name2b>>
    /\ hist[1].unhandled = {} /\ hist[2].unhandled = {}
    /\ Committed(1) /\ Committed(2)
    /\ RowFiles(ledger) = <<Name2b, Name2b>>

\* the positions of the calls of the method m in the call sequence c
CallsOf(c, m) == {i \in 1..Len(c) : c[i] = m}

\* C30: the order of the data-source calls of one run: GetMigrationInfo is
\* the first call; BeginTransaction is called at most once and only after
\* the ledger was read and the directory listed and sorted; every
\* ApplyMigration call comes after a successful BeginTransaction and before
\* EndTransaction; SetTransactionSuccessful(true) is called at most once,
\* only after the last entry was processed without error, and no
\* ApplyMigration follows it; EndTransaction is the last call of the run.
C30_ProtocolOrder ==
    \A p \in AllProcs :
        LET c == hist[p].calls IN
        /\ c # <<>> => c[1] = "GetMigrationInfo"
        /\ Cardinality(CallsOf(c, "GetMigrationInfo")) <= 1
        /\ Cardinality(CallsOf(c, "BeginTransaction")) <= 1
        /\ \A i \in CallsOf(c, "BeginTransaction") :
              /\ \E j \in 1..(i - 1) : c[j] = "GetMigrationInfo"
              /\ \E j \in 1..(i - 1) : c[j] = "GetPath"
              /\ hist[p].listed
              /\ run[p].entries \in
                    {SortDirectoryEntries(fsReadDir(enum)).entries : enum \in Enumerations(disk)}
        /\ \A i \in CallsOf(c, "ApplyMigration") :
              /\ hist[p].began
              /\ \E j \in 1..(i - 1) : c[j] = "BeginTransaction"
              /\ \A j \in 1..(i - 1) : c[j] # "EndTransaction"
        /\ Len(hist[p].applyCalls) = Cardinality(CallsOf(c, "ApplyMigration"))
        /\ Cardinality(CallsOf(c, "SetTransactionSuccessful")) <= 1
        /\ \A i \in CallsOf(c, "SetTransactionSuccessful") :
              /\ run[p].idx > Len(run[p].entries)
              /\ run[p].ret = "nil"
              /\ \A j \in (i + 1)..Len(c) : c[j] # "ApplyMigration"
        /\ Cardinality(CallsOf(c, "EndTransaction")) <= 1
        /\ \A i \in CallsOf(c, "EndTransaction") : i = Len(c)
        /\ (Finished(p) /\ hist[p].began) => c[Len(c)] = "EndTransaction"

\* a run has made all calls of the protocol, with two changesets applied
C30_Witness ==
    \E p \in AllProcs :
        /\ Finished(p)
        /\ hist[p].calls = <<"GetMigrationInfo", "GetChangeSetFileSystem", "GetPath",
                             "BeginTransaction", "ApplyMigration", "ApplyMigration",
                             "SetTransactionSuccessful", "EndTransaction">>

\* C31: a run that has begun its transaction ends it: once BeginTransaction
\* has returned nil the call of Migrate reaches its return, whatever parsing,
\* hashing, classification and ApplyMigration give for the entries of the
\* directory, and by then EndTransaction has been called exactly once (n is
\* the number of runs that returned before, it names the run).
C31_BegunRunEnds ==
    \A p \in AllProcs : \A n \in 0..MaxRuns :
        (p \in procs /\ runsDone = n /\ hist[p].began /\ pc[p] = "loop")
            ~> (runsDone = n /\ pc[p] = "done" /\ hist[p].endCalls = 1)

\* a run whose ApplyMigration failed on its second entry has returned after
\* one call of EndTransaction
C31_Witness ==
    \E p \in AllProcs :
        /\ Finished(p) /\ hist[p].began /\ hist[p].endCalls = 1
        /\ run[p].ret = "apply" /\ run[p].idx = 2 /\ Len(run[p].entries) >= 2

\* C32: Migrate returns nil only if the new ledger rows of the run are
\* committed: when a run has returned nil, every changeset it classified as
\* new and gave to ApplyMigration has a row in the ledger that the next
\* GetMigrationInfo reads, also when the Commit of the data source failed.
C32_NilMeansCommitted ==
    \A p \in AllProcs :
        (Finished(p) /\ run[p].ret = "nil") =>
            \A i \in 1..Len(hist[p].applyCalls) : RowsOf(hist[p].applyCalls[i]) # {}

\* C33: a data source can be used for one run after another: after a run has
\* ended its transaction, BeginTransaction on the same object succeeds in a
\* later run unless the database refuses a new transaction, and the later
\* run commits exactly when it called SetTransactionSuccessful itself,
\* whatever flag the earlier run left.
C33_DataSourceReusable ==
    \A p \in AllProcs : Finished(p) =>
        /\ run[p].ret = "begin" => "begin" \in hist[p].faults
        /\ hist[p].began =>
              ((hist[p].outcome \in {"commit", "commitFailed"})
                  <=> "SetTransactionSuccessful" \in SeqSet(hist[p].calls))

\* the run of p has begun its transaction on a ledger without rows
OnEmptyLedger(p) ==
    p \in procs /\ hist[p].began /\ run[p].info.Migrations = <<>> /\ run[p].info.Version = 0

\* C34: with an empty ledger no candidate that ParseMigration accepts is
\* rejected with a version conflict or as out of order, a numeric prefix of
\* zero included: each is classified as a new migration.
C34_FreshNeverRejects ==
    \A p \in AllProcs :
        OnEmptyLedger(p) => run[p].ret \notin {"conflict", "outOfOrder"}

\* C35: the sorter's version extraction agrees with the parser: for every
\* file name that ParseMigration accepts, ExtractVersion succeeds and gives
\* the same version, a digit prefix of zeros only included.
C35_ExtractAgreesWithParse ==
    (Parsed /\ fn.out.err = "nil") =>
        /\ ExtractVersion(fn.in).ok
        /\ ExtractVersion(fn.in).val = fn.out.Version

\* e matches no row the run of p found and carries the version of a row
\* that is not the highest one
SharesLowerVersion(p, e) ==
    LET rows == run[p].info.Migrations IN
    /\ ~Matched(e, rows)
    /\ VersionOf(e.name) < run[p].info.Version
    /\ \E i \in 1..Len(rows) : rows[i].Version = VersionOf(e.name)

\* C36: an unmatched candidate whose version is that of an applied row
\* other than the highest is never a version conflict: with OutOfOrder=true
\* it is classified as new and given to ApplyMigration, with
\* OutOfOrder=false the run ends at it as out of order (stated for the
\* entries the run has reached; the run can end at one earlier, or at this
\* one when its file cannot be hashed).
C36_LowerRowVersionIsNew ==
    \A p \in AllProcs : (p \in procs /\ hist[p].began) =>
        \A e \in ParsedCandidates : SharesLowerVersion(p, e) =>
            LET k == PosIn(run[p].entries, e.name) IN
            /\ k < run[p].idx =>
                  run[p].OutOfOrder /\ e.name \in SeqSet(hist[p].applyCalls)
            /\ (k = run[p].idx /\ pc[p] # "loop") =>
                  /\ run[p].ret \in {"hash", "apply", "outOfOrder"}
                  /\ run[p].ret = "outOfOrder" => ~run[p].OutOfOrder
                  /\ run[p].ret = "apply" =>
                        /\ run[p].OutOfOrder
                        /\ hist[p].applyCalls[Len(hist[p].applyCalls)] = e.name

\* on a ledger with the versions 1 and 2 a run with OutOfOrder=true has
\* applied "01__e.sql", a second changeset of version 1, and returned nil
C36_Witness ==
    \E p \in AllProcs :
        /\ Finished(p) /\ run[p].ret = "nil" /\ run[p].OutOfOrder
        /\ run[p].info.Version = 2 /\ Len(run[p].info.Migrations) = 2
        /\ \E e \in ParsedCandidates :
              e.name = Name01e /\ SharesLowerVersion(p, e)
        /\ Name01e \in SeqSet(hist[p].applyCalls)

\* the same candidate has ended a run with OutOfOrder=false as out of order
C36_WitnessRejected ==
    \E p \in AllProcs :
        /\ Finished(p) /\ run[p].ret = "outOfOrder" /\ ~run[p].OutOfOrder
        /\ \E e \in ParsedCandidates :
              SharesLowerVersion(p, e) /\ PosIn(run[p].entries, e.name) = run[p].idx

Sign(x) == IF x > 0 THEN 1 ELSE IF x < 0 THEN 0 - 1 ELSE 0

\* C37: the comparator of SortDirectoryEntries, int(versionA - versionB),
\* has the sign of the comparison of the two versions: for every two entries
\* of a listing the run has sorted, for which ExtractVersion succeeds (a
\* negative prefix included), the subtraction does not wrap around and the
\* result is negative, zero or positive as versionA is below, equal to or
\* above versionB.
C37_ComparatorHasTrueSign ==
    \A p \in AllProcs : SortCalled(p) =>
        \A a, b \in disk :
            (ExtractVersion(a.name).ok /\ ExtractVersion(b.name).ok) =>
                Sign(VersionCmp(a, b))
                    = Sign(ExtractVersion(a.name).val - ExtractVersion(b.name).val)

====
